---------------------------- MODULE Spec2Model ----------------------------
(***************************************************************************)
(* The realtime feed clients of go-upstox: the WebSocketManager (reconnect *)
(* with backoff, price callback) and the WebSocket client (subscription    *)
(* registry, replay on connect, typed callbacks).  One object is under     *)
(* verification in a behaviour: `object' says which.  The two share no     *)
(* state in the program.                                                   *)
(***************************************************************************)
EXTENDS Integers, Sequences, FiniteSets, TLC

(* ------------------------------ bounds -------------------------------- *)
\* successful dials in one behaviour (each yields a fresh socket id)
MaxConns == 2
\* longest instrument-key list passed to one call
MaxKeys == 2
\* longest quote or OHLC list in one feed
MaxItems == 1
\* Stop() calls of the manager in one behaviour
MaxStops == 2
\* Start() / Stop() calls of the manager that may be in progress together
MaxPar == 1

(* ------------------------- program constants -------------------------- *)
\* the nil connection handle
Nil == 0
\* the run-time error of a method call through a nil handle
NilHandle == "nil pointer dereference"
\* NewWebSocketManager: maxReconnectAttempts: 3
maxReconnectAttempts == 3
\* NewWebSocketManager: reconnectDelay: time.Second (delays are in seconds)
BaseDelay == 1

ConnIds == 1..MaxConns
Keys == {"X", "Y"}
Modes == {"ltpc", "full"}
Objects == {"manager", "client"}

VARIABLES
  object,             \* which object this behaviour is about
  workload,           \* what its user and its peer do in this behaviour
  \* ---- sockets, shared shape of both objects
  open,               \* sockets dialed and still live: neither closed nor failed
  nextConn,           \* number of sockets dialed so far
  panicked,           \* a goroutine panicked: the process is gone
  lastOp,             \* the operation that ran last: result, frames written, callbacks invoked
  lateConns,          \* history: the sockets dialed after Stop() cancelled the context
                      \* (manager) or Close() closed the done channel (client)
  \* ---- WebSocketManager
  ws, isConnecting, shouldReconnect, reconnectAttempts, reconnectDelay,
  ctxDone,            \* wsm.ctx is cancelled
  mu,                 \* wsm.mu: "free" or "held" (by connect, across the dial)
  InstrumentKeys,     \* wsm.config.InstrumentKeys
  onPriceUpdate,      \* TRUE iff a price callback was given
  starting,           \* Start() calls that set the flag and wait for connect's Lock
  stopping,           \* Stop() calls that cancelled and wait for the Lock
  timers,             \* reconnect timers scheduled and not yet fired
  dialing,            \* connect calls inside dialer.Dial, per kind of caller
  hm,                 \* handleMessages goroutines per position
  delays,             \* history: the delays handleDisconnect scheduled, in order
  awaitingRedial,     \* history: a read failed under shouldReconnect and no dial began since
  stops,              \* history: Stop() calls that returned
  url,                \* wsm.url: the authorization call whose URL it holds
  connUrl,            \* history: per dialed socket, the URL it was dialed with
  updating,           \* UpdateInstruments() calls between the nil check and subscribe()
  \* ---- WebSocket client
  conn, connected,
  done,               \* TRUE iff the done channel is closed
  subscriptions,      \* the registry: instrument key -> mode
  marketInfoHandler, liveFeedHandler,
  connectPc,          \* per dialed socket, where the Connect() call that dialed it stands
  readers,            \* readMessages goroutines per position: at the select, in
                      \* ReadMessage on a socket, in the callback for a frame of a socket
  overlapped,         \* history: Connect() calls in progress that another call ran into
  lastCall, lastMode, \* history: per key, the last call naming it and the last mode given to it
  subbed              \* history: keys named in a "sub" request written on the current socket
                      \* since a Connect() in progress dialed it, and not unsubscribed since

mvars == <<ws, isConnecting, shouldReconnect, reconnectAttempts, reconnectDelay,
           ctxDone, mu, InstrumentKeys, onPriceUpdate, starting, stopping,
           timers, dialing, hm, delays, awaitingRedial, stops, url, connUrl, updating>>
cvars == <<conn, connected, done, subscriptions, marketInfoHandler, liveFeedHandler,
           connectPc, readers, overlapped, lastCall, lastMode, subbed>>
svars == <<open, nextConn, panicked, lastOp>>
vars == <<object, workload, svars, mvars, cvars, lateConns>>

(* ------------------------------ helpers ------------------------------- *)
Range(s) == {s[i] : i \in DOMAIN s}
\* the sum of f[1], ..., f[n]
RECURSIVE SumTo(_, _)
SumTo(f, n) == IF n = 0 THEN 0 ELSE f[n] + SumTo(f, n - 1)
\* every enumeration, without repetition, of the finite set S
Orders(S) == {s \in [1..Cardinality(S) -> S] : Range(s) = S}
\* key lists a caller may pass: 0..MaxKeys keys, in any order, each key once
KeyLists ==
  {s \in UNION {[1..n -> Keys] : n \in 0..MaxKeys} :
     \A i, j \in DOMAIN s : s[i] = s[j] => i = j}

NoOp == [op |-> "none", who |-> "", call |-> Nil, conn |-> Nil, dialed |-> FALSE,
         overlapped |-> FALSE, err |-> "", frames |-> <<>>, calls |-> <<>>,
         tag |-> "", instruments |-> {}, feeds |-> <<>>, info |-> {}, mode |-> "",
         keys |-> <<>>]

\* a control frame as sendSubscriptionRequest / subscribe marshal it (guid left out)
Request_DefaultMode(method, mode, keys) == [method |-> method, mode |-> "ltpc", keys |-> keys]
Request(method, mode, keys) == [method |-> method, mode |-> mode, keys |-> keys]

\* the inputs of a behaviour: under "calls" the user works the registry with
\* every key list and mode and the peer stays silent; under "feed" the user
\* registers callbacks, subscribes one instrument, and the peer sends frames;
\* under "shapes" the user registers a callback and the peer sends live-feed
\* frames of every wire shape; under "modes" the user works the registry with
\* one key, named once or twice in a call, and with modes that include the
\* empty string
UserKeyLists ==
  IF workload = "calls" THEN KeyLists
  ELSE IF workload = "feed" THEN {<<"X">>}
  ELSE IF workload = "modes" THEN {<<"X">>, <<"X", "X">>} ELSE {}
UserModes ==
  IF workload = "calls" THEN Modes
  ELSE IF workload = "feed" THEN {"ltpc"}
  ELSE IF workload = "modes" THEN {"", "ltpc"} ELSE {}
UserCallbacks ==
  IF workload \in {"calls", "modes"} THEN {}
  ELSE IF workload = "feed" THEN {"f", "g"} ELSE {"f"}

\* an operation may run: the object exists, the process lives, and the outcome
\* of the previous operation has been returned to its caller
Running(obj) == object = obj /\ ~panicked /\ lastOp = NoOp

\* the outcome of the last operation is handed to its caller (or log)
Return ==
  /\ lastOp # NoOp
  /\ lastOp' = NoOp
  /\ UNCHANGED <<object, workload, open, nextConn, panicked, mvars, cvars, lateConns>>

(* ------------------------ inbound frames ------------------------------ *)
\* one Feed of FeedResponse.Feeds: the populated oneof ("fullNone" is a
\* FullFeed whose own oneof is empty), its nested Ltpc, the other nested
\* groups present on the wire, and the length of the present lists.  Ltq is an
\* int64 on the wire, kept as its two 32-bit words: ltqHi * 2^32 + ltq
Shape(v, has, p, q, gs, n) ==
  [variant |-> v, hasLtpc |-> has, ltp |-> p, ltq |-> q, ltqHi |-> 0, groups |-> gs,
   items |-> n]
\* feeds whose quantity does not fit 32 bits: 2^32 and 2^32 + 1
WideShapes == {[Shape("ltpc", TRUE, 1, q, {}, 0) EXCEPT !.ltqHi = 1] : q \in {0, 1}}
FeedShapes ==
  {Shape("ltpc", TRUE, p, q, {}, 0) : p \in {0, 1}, q \in {0, 1}}
  \cup {Shape(v, TRUE, 1, q, {}, 0) : v \in {"marketFF", "indexFF", "greeks"}, q \in {0, 1}}
  \cup {Shape(v, FALSE, 0, 0, {}, 0) : v \in {"marketFF", "indexFF", "greeks", "none"}}
\* the nested groups each wire message type has besides Ltpc
GroupsOf(v) ==
  IF v = "marketFF" THEN {"level", "greeks", "ohlc"}
  ELSE IF v = "indexFF" THEN {"ohlc"}
  ELSE IF v = "greeks" THEN {"depth", "greeks"}
  ELSE {}
\* every wire shape of one Feed
RichShapes ==
  {f \in {Shape(v, has, IF has THEN 1 ELSE 0, 0, gs, n) :
            v \in {"marketFF", "indexFF", "greeks"}, has \in BOOLEAN,
            gs \in SUBSET {"level", "greeks", "ohlc", "depth"}, n \in 0..MaxItems} :
     /\ f.groups \subseteq GroupsOf(f.variant)
     /\ f.items > 0 => f.groups \cap {"level", "ohlc"} # {}}
  \cup {Shape("ltpc", TRUE, 1, q, {}, 0) : q \in {0, 1}}
  \cup {Shape(v, FALSE, 0, 0, {}, 0) : v \in {"fullNone", "none"}}
SimpleShapes == {f \in FeedShapes : f.variant = "ltpc" /\ f.ltq = 0}
\* the feeds maps of the frames used in the state machine
FeedMaps ==
  {<<>>} \cup [{"X"} -> {f \in FeedShapes : f.variant \in {"ltpc", "none"}}]
         \cup [Keys -> {f \in SimpleShapes : f.ltp = 1}]
Tags == {"initial_feed", "live_feed", "market_info", "other"}
\* frames a socket may deliver: binary and decodable, binary and malformed, text
InFrames ==
  {[kind |-> "binary", ok |-> TRUE, type |-> t, feeds |-> m, info |-> {}] :
     t \in {"initial_feed", "live_feed"}, m \in FeedMaps}
  \cup {[kind |-> "binary", ok |-> TRUE, type |-> t, feeds |-> m, info |-> {}] :
     t \in {"market_info", "other"}, m \in {<<>>} \cup [{"X"} -> SimpleShapes]}
  \cup {[kind |-> k, ok |-> FALSE, type |-> "other", feeds |-> <<>>, info |-> {}] : k \in {"binary", "text"}}
  \cup {[kind |-> "text", ok |-> TRUE, type |-> t, feeds |-> <<>>, info |-> {}] : t \in {"live_feed", "other"}}

\* live-feed frames of one instrument in every wire shape
ShapeFrames ==
  {[kind |-> "binary", ok |-> TRUE, type |-> "live_feed", feeds |-> m, info |-> {}] :
     m \in [{"X"} -> RichShapes]}

\* price frames sent to the manager besides: one instrument in the variants
\* that nest their Ltpc, and with a quantity beyond 32 bits
PriceFrames ==
  {[kind |-> "binary", ok |-> TRUE, type |-> "live_feed", feeds |-> m, info |-> {}] :
     m \in [{"X"} -> {f \in FeedShapes : f.variant \notin {"ltpc", "none"}}
                       \cup WideShapes]}

\* the MarketStatus codes of the wire, numbered in the order of
\* convertMarketStatus's cases, and one code the switch does not know
WireStatuses == 0..6
Segments == {"NSE_EQ", "NSE_FO"}
\* FeedResponse.MarketInfo.SegmentStatus: no, one or both segments, the first
\* with any status (the second, to bound the frames, with the unknown one)
SegmentMaps ==
  {m \in UNION {[S -> WireStatuses] : S \in SUBSET Segments} :
     "NSE_FO" \in DOMAIN m => m["NSE_FO"] = 6}
\* market_info frames: without MarketInfo, or with a segment map (`info' is
\* the optional MarketInfo, empty for nil)
InfoFrames ==
  {[kind |-> "binary", ok |-> TRUE, type |-> "market_info", feeds |-> <<>>, info |-> i] :
     i \in {{}} \cup {{[SegmentStatus |-> m]} : m \in SegmentMaps}}

PeerFrames ==
  IF workload = "feed" THEN InFrames \cup (IF object = "manager" THEN PriceFrames ELSE {})
  ELSE IF workload = "shapes" THEN ShapeFrames \cup InfoFrames ELSE {}

(* ====================== WebSocketManager ============================== *)
Callers == {"user", "timer"}

Bump(f, x, d) == [f EXCEPT ![x] = @ + d]
\* a handleMessages goroutine blocked in ReadMessage on socket c comes or goes
BumpRead(h, c, d) == [h EXCEPT !.read[c] = @ + d]

\* connect's entry check, under the lock
connectIsNoop_NoHandleCheck == isConnecting
connectIsNoop == isConnecting \/ ws # Nil

\* the price and quantity processMessage extracts from one Feed
Ltp(feed) == IF feed.variant # "none" /\ feed.hasLtpc THEN feed.ltp ELSE 0
LtqPresent(feed) ==
  feed.variant # "none" /\ feed.hasLtpc /\ (feed.ltq # 0 \/ feed.ltqHi # 0)
\* the wire's int64 quantity, as its high and low words
Int64(feed) == <<feed.ltqHi, feed.ltq>>
\* int32(x) of the int64 x keeps the low 32 bits (every low word used is
\* below 2^31, so it is its own signed reading)
Int32(feed) == Int64(feed)[2]

\* processMessage without the price check before the callback
PriceCalls_AnyPrice(frame) ==
  IF ~frame.ok THEN {}
  ELSE IF frame.type # "live_feed" /\ frame.type # "initial_feed" THEN {}
  ELSE {[cb |-> "onPriceUpdate", symbol |-> k, price |-> Ltp(frame.feeds[k]),
         ltq |-> IF LtqPresent(frame.feeds[k]) THEN {Int32(frame.feeds[k])} ELSE {}] :
          k \in {x \in DOMAIN frame.feeds : onPriceUpdate}}

\* the onPriceUpdate invocations of WebSocketManager.processMessage, as a set;
\* ltq is the *int32 argument: empty for nil, else the value pointed to
PriceCalls(frame) ==
  IF ~frame.ok THEN {}
  ELSE IF frame.type # "live_feed" /\ frame.type # "initial_feed" THEN {}
  ELSE {[cb |-> "onPriceUpdate", symbol |-> k, price |-> Ltp(frame.feeds[k]),
         ltq |-> IF LtqPresent(frame.feeds[k]) THEN {Int32(frame.feeds[k])} ELSE {}] :
          k \in {x \in DOMAIN frame.feeds : Ltp(frame.feeds[x]) > 0 /\ onPriceUpdate}}

\* Start(): the flag is set without the lock, then connect() waits for the lock
Start ==
  /\ Running("manager")
  /\ starting < MaxPar
  /\ shouldReconnect' = TRUE
  /\ starting' = starting + 1
  /\ UNCHANGED lastOp
  /\ UNCHANGED <<object, workload, cvars, stops, url, connUrl, lateConns, updating, open, nextConn, panicked, ws, isConnecting, reconnectAttempts,
                 reconnectDelay, ctxDone, mu, InstrumentKeys, onPriceUpdate, stopping,
                 timers, dialing, hm, delays, awaitingRedial>>

\* connect(), from Start() or from a fired reconnect timer: Lock, the entry
\* check, and either the early return or the start of the dial (lock kept)
ConnectEnter(who) ==
  /\ Running("manager")
  /\ mu = "free"
  /\ IF who = "user" THEN starting > 0 ELSE timers > 0
  /\ starting' = IF who = "user" THEN starting - 1 ELSE starting
  /\ timers' = IF who = "timer" THEN timers - 1 ELSE timers
  /\ IF connectIsNoop
       THEN /\ lastOp' = [NoOp EXCEPT !.op = "connect", !.who = who]
            /\ UNCHANGED <<isConnecting, mu, dialing, awaitingRedial>>
       ELSE /\ isConnecting' = TRUE
            /\ mu' = "held"
            /\ dialing' = Bump(dialing, who, 1)
            /\ awaitingRedial' = FALSE
            /\ UNCHANGED lastOp
  /\ UNCHANGED <<object, workload, cvars, stops, url, connUrl, lateConns, updating, open, nextConn, panicked, ws, shouldReconnect, reconnectAttempts,
                 reconnectDelay, ctxDone, InstrumentKeys, onPriceUpdate, stopping, hm, delays>>

\* connect() without the length check before subscribe()
DialOk_ReplayAlways(who, writeOk) ==
  /\ Running("manager")
  /\ dialing[who] > 0
  /\ nextConn < MaxConns
  /\ nextConn' = nextConn + 1
  /\ open' = open \cup {nextConn + 1}
  /\ ws' = nextConn + 1
  /\ connUrl' = [connUrl EXCEPT ![nextConn + 1] = url]
  /\ lateConns' = IF ctxDone THEN lateConns \cup {nextConn + 1} ELSE lateConns
  /\ reconnectAttempts' = 0
  /\ reconnectDelay' = BaseDelay
  /\ isConnecting' = FALSE
  /\ hm' = Bump(hm, "select", 1)
  /\ dialing' = Bump(dialing, who, -1)
  /\ mu' = "free"
  /\ lastOp' = [NoOp EXCEPT !.op = "connect", !.who = who, !.dialed = TRUE,
                            !.conn = nextConn + 1,
                            !.err = IF ~writeOk THEN "write" ELSE "",
                            !.frames = IF writeOk
                                         THEN <<Request("sub", "ltpc", InstrumentKeys)>>
                                         ELSE <<>>]
  /\ UNCHANGED <<object, workload, cvars, stops, url, updating, panicked, shouldReconnect, ctxDone, InstrumentKeys, onPriceUpdate,
                 starting, stopping, timers, delays, awaitingRedial>>

\* the dial succeeded: handle, counters, receive loop, replay of the instrument list
DialOk(who, writeOk) ==
  /\ Running("manager")
  /\ dialing[who] > 0
  /\ nextConn < MaxConns
  /\ nextConn' = nextConn + 1
  /\ open' = open \cup {nextConn + 1}
  /\ ws' = nextConn + 1
  /\ connUrl' = [connUrl EXCEPT ![nextConn + 1] = url]
  /\ lateConns' = IF ctxDone THEN lateConns \cup {nextConn + 1} ELSE lateConns
  /\ reconnectAttempts' = 0
  /\ reconnectDelay' = BaseDelay
  /\ isConnecting' = FALSE
  /\ hm' = Bump(hm, "select", 1)
  /\ dialing' = Bump(dialing, who, -1)
  /\ mu' = "free"
  /\ lastOp' = [NoOp EXCEPT !.op = "connect", !.who = who, !.dialed = TRUE,
                            !.conn = nextConn + 1,
                            !.err = IF Len(InstrumentKeys) > 0 /\ ~writeOk THEN "write" ELSE "",
                            !.frames = IF Len(InstrumentKeys) > 0 /\ writeOk
                                         THEN <<Request("sub", "ltpc", InstrumentKeys)>>
                                         ELSE <<>>]
  /\ UNCHANGED <<object, workload, cvars, stops, url, updating, panicked, shouldReconnect, ctxDone, InstrumentKeys, onPriceUpdate,
                 starting, stopping, timers, delays, awaitingRedial>>

\* connect() returning the dial error without resetting isConnecting
DialFail_KeepConnecting(who) ==
  /\ Running("manager")
  /\ dialing[who] > 0
  /\ UNCHANGED isConnecting
  /\ dialing' = Bump(dialing, who, -1)
  /\ mu' = "free"
  /\ lastOp' = [NoOp EXCEPT !.op = "connect", !.who = who, !.dialed = TRUE, !.err = "dial"]
  /\ UNCHANGED <<object, workload, cvars, stops, url, connUrl, lateConns, updating, open, nextConn, panicked, ws, shouldReconnect, reconnectAttempts,
                 reconnectDelay, ctxDone, InstrumentKeys, onPriceUpdate, starting, stopping,
                 timers, hm, delays, awaitingRedial>>

\* the dial failed: isConnecting is reset and the error returned (the timer's
\* callback only logs it)
DialFail(who) ==
  /\ Running("manager")
  /\ dialing[who] > 0
  /\ isConnecting' = FALSE
  /\ dialing' = Bump(dialing, who, -1)
  /\ mu' = "free"
  /\ lastOp' = [NoOp EXCEPT !.op = "connect", !.who = who, !.dialed = TRUE, !.err = "dial"]
  /\ UNCHANGED <<object, workload, cvars, stops, url, connUrl, lateConns, updating, open, nextConn, panicked, ws, shouldReconnect, reconnectAttempts,
                 reconnectDelay, ctxDone, InstrumentKeys, onPriceUpdate, starting, stopping,
                 timers, hm, delays, awaitingRedial>>

\* handleMessages without the ctx.Done() case in its select
HMSelect_IgnoreCancel ==
  /\ Running("manager")
  /\ hm.select > 0
  /\ hm' = Bump(Bump(hm, "select", -1), "default", 1)
  /\ UNCHANGED lastOp
  /\ UNCHANGED <<object, workload, cvars, stops, url, connUrl, lateConns, updating, open, nextConn, panicked, ws,
                 isConnecting, shouldReconnect, reconnectAttempts, reconnectDelay, ctxDone,
                 mu, InstrumentKeys, onPriceUpdate, starting, stopping, timers, dialing,
                 delays, awaitingRedial>>

\* handleMessages, top of the loop: ctx.Done() wins the select when cancelled,
\* otherwise the default branch is taken
HMSelect ==
  /\ Running("manager")
  /\ hm.select > 0
  /\ hm' = Bump(Bump(hm, "select", -1), IF ctxDone THEN "exit" ELSE "default", 1)
  /\ UNCHANGED lastOp
  /\ UNCHANGED <<object, workload, cvars, stops, url, connUrl, lateConns, updating, open, nextConn, panicked, ws,
                 isConnecting, shouldReconnect, reconnectAttempts, reconnectDelay, ctxDone,
                 mu, InstrumentKeys, onPriceUpdate, starting, stopping, timers, dialing,
                 delays, awaitingRedial>>

\* the default branch: wsm.ws is read, without the lock, and ReadMessage is
\* called on it; on a nil handle that is a nil pointer dereference
HMRead ==
  /\ Running("manager")
  /\ hm.default > 0
  /\ IF ws = Nil
       THEN /\ panicked' = TRUE
            /\ hm' = Bump(hm, "default", -1)
            /\ lastOp' = [NoOp EXCEPT !.op = "ReadMessage", !.err = NilHandle]
       ELSE /\ hm' = BumpRead(Bump(hm, "default", -1), ws, 1)
            /\ UNCHANGED <<panicked, lastOp>>
  /\ UNCHANGED <<object, workload, cvars, stops, url, connUrl, lateConns, updating, open, nextConn, ws,
                 isConnecting, shouldReconnect, reconnectAttempts, reconnectDelay, ctxDone,
                 mu, InstrumentKeys, onPriceUpdate, starting, stopping, timers, dialing,
                 delays, awaitingRedial>>

\* ReadMessage returned a frame: binary frames go to processMessage, text is logged
HMFrame(c, frame, calls) ==
  /\ Running("manager")
  /\ hm.read[c] > 0 /\ c \in open
  /\ hm' = Bump(BumpRead(hm, c, -1), "select", 1)
  /\ lastOp' = [NoOp EXCEPT !.op = "frame", !.conn = c, !.calls = calls,
                            !.who = frame.kind,
                            !.tag = IF frame.ok THEN frame.type ELSE "malformed",
                            !.instruments = DOMAIN frame.feeds, !.feeds = frame.feeds]
  /\ UNCHANGED <<object, workload, cvars, stops, url, connUrl, lateConns, updating, open, nextConn, panicked, ws, isConnecting, shouldReconnect,
                 reconnectAttempts, reconnectDelay, ctxDone, mu, InstrumentKeys,
                 onPriceUpdate, starting, stopping, timers, dialing, delays, awaitingRedial>>

\* ReadMessage returned an error (peer closed, network, socket closed by Stop):
\* handleDisconnect is entered and reads shouldReconnect, without the lock
HMReadErr(c) ==
  /\ Running("manager")
  /\ hm.read[c] > 0
  /\ hm' = Bump(BumpRead(hm, c, -1), IF shouldReconnect THEN "disc" ELSE "exit", 1)
  /\ open' = open \ {c}
  /\ lastOp' = [NoOp EXCEPT !.op = "readErr", !.conn = c]
  /\ UNCHANGED <<object, workload, cvars, stops, url, connUrl, lateConns, updating, nextConn, panicked, ws,
                 isConnecting, shouldReconnect, reconnectAttempts, reconnectDelay, ctxDone,
                 mu, InstrumentKeys, onPriceUpdate, starting, stopping, timers, dialing,
                 delays, awaitingRedial>>

\* handleDisconnect arming the timer before it doubles the delay
HMDisconnect_TimerBeforeDoubling ==
  /\ Running("manager")
  /\ hm.disc > 0
  /\ IF reconnectAttempts < maxReconnectAttempts
       THEN /\ reconnectAttempts' = reconnectAttempts + 1
            /\ reconnectDelay' = reconnectDelay * 2
            /\ timers' = timers + 1
            /\ delays' = Append(delays, reconnectDelay)
            /\ awaitingRedial' = TRUE
            /\ hm' = Bump(Bump(hm, "disc", -1), "exit", 1)
            /\ UNCHANGED <<shouldReconnect, ctxDone>>
       ELSE /\ shouldReconnect' = FALSE
            /\ ctxDone' = TRUE
            /\ hm' = Bump(Bump(hm, "disc", -1), "stop", 1)
            /\ UNCHANGED <<reconnectAttempts, reconnectDelay, timers, delays, awaitingRedial>>
  /\ UNCHANGED lastOp
  /\ UNCHANGED <<object, workload, cvars, stops, url, connUrl, lateConns, updating, open, nextConn, panicked, ws,
                 isConnecting, mu, InstrumentKeys, onPriceUpdate, starting, stopping, dialing>>

\* handleDisconnect, past the shouldReconnect check: a reconnect timer is
\* scheduled with the doubled delay, or, the attempts used up, Stop() is called
HMDisconnect ==
  /\ Running("manager")
  /\ hm.disc > 0
  /\ IF reconnectAttempts < maxReconnectAttempts
       THEN /\ reconnectAttempts' = reconnectAttempts + 1
            /\ reconnectDelay' = reconnectDelay * 2
            /\ timers' = timers + 1
            /\ delays' = Append(delays, reconnectDelay * 2)
            /\ awaitingRedial' = TRUE
            /\ hm' = Bump(Bump(hm, "disc", -1), "exit", 1)
            /\ UNCHANGED <<shouldReconnect, ctxDone>>
       ELSE /\ shouldReconnect' = FALSE
            /\ ctxDone' = TRUE
            /\ hm' = Bump(Bump(hm, "disc", -1), "stop", 1)
            /\ UNCHANGED <<reconnectAttempts, reconnectDelay, timers, delays, awaitingRedial>>
  /\ UNCHANGED lastOp
  /\ UNCHANGED <<object, workload, cvars, stops, url, connUrl, lateConns, updating, open, nextConn, panicked, ws,
                 isConnecting, mu, InstrumentKeys, onPriceUpdate, starting, stopping, dialing>>

\* handleMessages returns: the deferred function takes the lock and clears the handle
HMExit ==
  /\ Running("manager")
  /\ hm.exit > 0
  /\ mu = "free"
  /\ ws' = Nil
  /\ hm' = Bump(hm, "exit", -1)
  /\ UNCHANGED lastOp
  /\ UNCHANGED <<object, workload, cvars, stops, url, connUrl, lateConns, updating, open, nextConn, panicked, isConnecting, shouldReconnect,
                 reconnectAttempts, reconnectDelay, ctxDone, mu, InstrumentKeys,
                 onPriceUpdate, starting, stopping, timers, dialing, delays, awaitingRedial>>

\* Stop(), first half, without the lock: the flag and the cancel
StopFlag ==
  /\ Running("manager")
  /\ stopping < MaxPar
  /\ stops + stopping < MaxStops
  /\ shouldReconnect' = FALSE
  /\ ctxDone' = TRUE
  /\ stopping' = stopping + 1
  /\ UNCHANGED lastOp
  /\ UNCHANGED <<object, workload, cvars, stops, url, connUrl, lateConns, updating, open, nextConn, panicked, ws, isConnecting, reconnectAttempts,
                 reconnectDelay, mu, InstrumentKeys, onPriceUpdate, starting, timers,
                 dialing, hm, delays, awaitingRedial>>

\* Stop() without the nil check on the handle: closing a nil handle panics
StopLocked_CloseAlways(who) ==
  /\ Running("manager")
  /\ mu = "free"
  /\ IF who = "user" THEN stopping > 0 ELSE hm.stop > 0
  /\ stopping' = IF who = "user" THEN stopping - 1 ELSE stopping
  /\ hm' = IF who = "user" THEN hm ELSE Bump(Bump(hm, "stop", -1), "exit", 1)
  /\ open' = open \ {ws}
  /\ ws' = Nil
  /\ lastOp' = [NoOp EXCEPT !.op = "Stop", !.who = who, !.conn = ws]
  /\ stops' = IF stops < MaxStops THEN stops + 1 ELSE stops
  /\ panicked' = (ws = Nil)
  /\ UNCHANGED <<object, workload, cvars, url, connUrl, lateConns, updating, nextConn, isConnecting, shouldReconnect,
                 reconnectAttempts, reconnectDelay, ctxDone, mu, InstrumentKeys,
                 onPriceUpdate, starting, timers, dialing, delays, awaitingRedial>>

\* Stop(), second half, under the lock: close and clear the handle.  `who' is
\* a user's Stop() or the one handleDisconnect calls
StopLocked(who) ==
  /\ Running("manager")
  /\ mu = "free"
  /\ IF who = "user" THEN stopping > 0 ELSE hm.stop > 0
  /\ stopping' = IF who = "user" THEN stopping - 1 ELSE stopping
  /\ hm' = IF who = "user" THEN hm ELSE Bump(Bump(hm, "stop", -1), "exit", 1)
  /\ open' = open \ {ws}
  /\ ws' = Nil
  /\ lastOp' = [NoOp EXCEPT !.op = "Stop", !.who = who, !.conn = ws]
  /\ stops' = IF stops < MaxStops THEN stops + 1 ELSE stops
  /\ UNCHANGED <<object, workload, cvars, url, connUrl, lateConns, updating, nextConn, panicked, isConnecting, shouldReconnect,
                 reconnectAttempts, reconnectDelay, ctxDone, mu, InstrumentKeys,
                 onPriceUpdate, starting, timers, dialing, delays, awaitingRedial>>

\* the instrument lists a user constructs the manager with, and those they
\* set later
ConstructionLists == {<<>>, <<"X">>}
InstrumentLists == {<<>>, <<"X">>, <<"Y", "X">>}

\* UpdateInstruments(): the list is stored under the lock; then, the lock
\* released, wsm.ws is compared with nil
UpdateInstruments(instrumentKeys) ==
  /\ Running("manager")
  /\ mu = "free"
  /\ updating < MaxPar
  /\ InstrumentKeys' = instrumentKeys
  /\ updating' = IF ws # Nil THEN updating + 1 ELSE updating
  /\ lastOp' = [NoOp EXCEPT !.op = "UpdateInstruments", !.keys = instrumentKeys, !.conn = ws]
  /\ UNCHANGED <<object, workload, cvars, stops, url, connUrl, lateConns, open, nextConn, panicked, ws,
                 isConnecting, shouldReconnect, reconnectAttempts, reconnectDelay, ctxDone,
                 mu, onPriceUpdate, starting, stopping, timers, dialing, hm, delays,
                 awaitingRedial>>

\* UpdateInstruments(), the handle found non-nil: subscribe() reads wsm.ws
\* again, without the lock, and writes the request on it
UpdateSubscribe(writeOk) ==
  /\ Running("manager")
  /\ updating > 0
  /\ updating' = updating - 1
  /\ IF ws = Nil
       THEN /\ panicked' = TRUE
            /\ lastOp' = [NoOp EXCEPT !.op = "subscribe", !.who = "UpdateInstruments",
                                      !.err = NilHandle]
       ELSE /\ lastOp' = [NoOp EXCEPT !.op = "subscribe", !.who = "UpdateInstruments",
                                      !.conn = ws, !.keys = InstrumentKeys,
                                      !.err = IF writeOk /\ ws \in open THEN "" ELSE "write",
                                      !.frames = IF writeOk /\ ws \in open
                                                   THEN <<Request("sub", "ltpc", InstrumentKeys)>>
                                                   ELSE <<>>]
            /\ UNCHANGED panicked
  /\ UNCHANGED <<object, workload, cvars, stops, url, connUrl, lateConns, open, nextConn, ws, isConnecting,
                 shouldReconnect, reconnectAttempts, reconnectDelay, ctxDone, mu,
                 InstrumentKeys, onPriceUpdate, starting, stopping, timers, dialing, hm,
                 delays, awaitingRedial>>

ManagerNext ==
  \/ Start
  \/ \E who \in Callers : ConnectEnter(who)
  \/ \E who \in Callers, writeOk \in BOOLEAN : DialOk(who, writeOk)
  \/ \E who \in Callers : DialFail(who)
  \/ HMSelect
  \/ HMRead
  \* frames are drawn only for a socket that a goroutine is reading
  \/ \E c \in {x \in ConnIds : lastOp = NoOp /\ hm.read[x] > 0}, frame \in PeerFrames :
       \E calls \in Orders(IF frame.kind = "binary" THEN PriceCalls(frame) ELSE {}) :
         HMFrame(c, frame, calls)
  \/ \E c \in ConnIds : HMReadErr(c)
  \/ HMDisconnect
  \/ HMExit
  \/ StopFlag
  \/ \E who \in {"user", "hm"} : StopLocked(who)
  \/ \E instrumentKeys \in InstrumentLists : UpdateInstruments(instrumentKeys)
  \/ \E writeOk \in BOOLEAN : UpdateSubscribe(writeOk)

(* ========================= WebSocket client =========================== *)
Some(x) == {x}
None == {}

\* Connect() calls between their dial and their return
InProgress == {c \in ConnIds : connectPc[c] # "idle"}

\* SubscribeWithMode's loop: every given key is set to the mode
SubscribeLoop_KeepExisting(subs, mode, keys) ==
  [k \in DOMAIN subs \cup Range(keys) |-> IF k \in DOMAIN subs THEN subs[k] ELSE mode]
SubscribeLoop(subs, mode, keys) ==
  [k \in DOMAIN subs \cup Range(keys) |-> IF k \in Range(keys) THEN mode ELSE subs[k]]

\* ChangeMode's loop: only keys already registered are set to the mode
ChangeLoop_Upsert(subs, mode, keys) ==
  [k \in DOMAIN subs \cup Range(keys) |-> IF k \in Range(keys) THEN mode ELSE subs[k]]
ChangeLoop(subs, mode, keys) ==
  [k \in DOMAIN subs |-> IF k \in Range(keys) THEN mode ELSE subs[k]]

\* Unsubscribe's loop over the given keys, in order: a registered key is
\* deleted and its mode remembered (a later hit overwrites an earlier one)
RECURSIVE UnsubscribeLoop(_, _, _)
UnsubscribeLoop(subs, mode, keys) ==
  IF keys = <<>> THEN [subs |-> subs, mode |-> mode]
  ELSE IF Head(keys) \in DOMAIN subs
    THEN UnsubscribeLoop([k \in DOMAIN subs \ {Head(keys)} |-> subs[k]],
                         subs[Head(keys)], Tail(keys))
    ELSE UnsubscribeLoop(subs, mode, Tail(keys))

\* a write on the client's current socket succeeds if the network lets it
\* and the socket is live
Sends_IgnoreFlag == conn # Nil
Sends == connected /\ conn # Nil
\* whether the network accepts a write: a choice only where a write is made
NetOutcomes == IF Sends THEN BOOLEAN ELSE {TRUE}
WriteOk(netOk) == netOk /\ conn \in open

\* the outcome of a registry call that may send one request
CallOutcome(op, sends, netOk, method, mode, keys) ==
  [NoOp EXCEPT !.op = op, !.who = op, !.mode = mode, !.keys = keys,
               !.conn = IF sends THEN conn ELSE Nil,
               !.err = IF sends /\ ~WriteOk(netOk) THEN "write" ELSE "",
               !.frames = IF sends /\ WriteOk(netOk)
                            THEN <<Request(method, mode, keys)>> ELSE <<>>]

NoKeys_Silent(op, via) ==
  /\ lastOp' = [NoOp EXCEPT !.op = op, !.who = via]
  /\ UNCHANGED <<subscriptions, lastCall, lastMode, overlapped, subbed>>
NoKeys(op, via) ==
  /\ lastOp' = [NoOp EXCEPT !.op = op, !.who = via, !.err = "no instrument keys provided"]
  /\ UNCHANGED <<subscriptions, lastCall, lastMode, overlapped, subbed>>

\* SubscribeWithMode, entered directly or through Subscribe
SubscribeCall(via, mode, keys, netOk) ==
  /\ Running("client")
  /\ IF Len(keys) = 0 THEN NoKeys("SubscribeWithMode", via)
     ELSE /\ subscriptions' = SubscribeLoop(subscriptions, mode, keys)
          /\ lastCall' = [k \in Keys |-> IF k \in Range(keys) THEN "SubscribeWithMode"
                                         ELSE lastCall[k]]
          /\ lastMode' = [k \in Keys |-> IF k \in Range(keys) THEN mode ELSE lastMode[k]]
          /\ overlapped' = overlapped \cup InProgress
          /\ subbed' = IF InProgress # {} /\ Sends /\ WriteOk(netOk)
                         THEN subbed \cup Range(keys) ELSE subbed
          /\ lastOp' = [CallOutcome("SubscribeWithMode", Sends, netOk, "sub", mode, keys)
                          EXCEPT !.who = via]
  /\ UNCHANGED <<object, workload, mvars, lateConns, open, nextConn, panicked, conn, connected, done,
                 marketInfoHandler, liveFeedHandler, connectPc, readers>>

SubscribeWithMode(mode, keys, netOk) == SubscribeCall("SubscribeWithMode", mode, keys, netOk)

\* Subscribe: SubscribeWithMode with ModeLTPC
Subscribe(keys, netOk) == SubscribeCall("Subscribe", "ltpc", keys, netOk)

\* an Unsubscribe that puts the deleted entries back when the write fails
Unsubscribe_Rollback(keys, netOk) ==
  /\ Running("client")
  /\ IF Len(keys) = 0 THEN NoKeys("Unsubscribe", "Unsubscribe")
     ELSE LET r == UnsubscribeLoop(subscriptions, "", keys) IN
          /\ subscriptions' = IF Sends /\ r.mode # "" /\ ~WriteOk(netOk)
                                THEN subscriptions ELSE r.subs
          /\ lastCall' = [k \in Keys |-> IF k \in Range(keys) THEN "Unsubscribe"
                                         ELSE lastCall[k]]
          /\ UNCHANGED lastMode
          /\ overlapped' = overlapped \cup InProgress
          /\ subbed' = IF Sends /\ r.mode # "" /\ WriteOk(netOk)
                         THEN subbed \ Range(keys) ELSE subbed
          /\ lastOp' = [CallOutcome("Unsubscribe", Sends /\ r.mode # "", netOk,
                                    "unsub", r.mode, keys)
                          EXCEPT !.instruments = DOMAIN subscriptions \ DOMAIN r.subs]
  /\ UNCHANGED <<object, workload, mvars, lateConns, open, nextConn, panicked, conn, connected, done,
                 marketInfoHandler, liveFeedHandler, connectPc, readers>>

\* an Unsubscribe that writes its request whenever the client is connected
Unsubscribe_NoModeCheck(keys, netOk) ==
  /\ Running("client")
  /\ IF Len(keys) = 0 THEN NoKeys("Unsubscribe", "Unsubscribe")
     ELSE LET r == UnsubscribeLoop(subscriptions, "", keys) IN
          /\ subscriptions' = r.subs
          /\ lastCall' = [k \in Keys |-> IF k \in Range(keys) THEN "Unsubscribe"
                                         ELSE lastCall[k]]
          /\ UNCHANGED lastMode
          /\ overlapped' = overlapped \cup InProgress
          /\ subbed' = IF Sends /\ WriteOk(netOk)
                         THEN subbed \ Range(keys) ELSE subbed
          /\ lastOp' = [CallOutcome("Unsubscribe", Sends, netOk,
                                    "unsub", r.mode, keys)
                          EXCEPT !.instruments = DOMAIN subscriptions \ DOMAIN r.subs]
  /\ UNCHANGED <<object, workload, mvars, lateConns, open, nextConn, panicked, conn, connected, done,
                 marketInfoHandler, liveFeedHandler, connectPc, readers>>

Unsubscribe(keys, netOk) ==
  /\ Running("client")
  /\ IF Len(keys) = 0 THEN NoKeys("Unsubscribe", "Unsubscribe")
     ELSE LET r == UnsubscribeLoop(subscriptions, "", keys) IN
          /\ subscriptions' = r.subs
          /\ lastCall' = [k \in Keys |-> IF k \in Range(keys) THEN "Unsubscribe"
                                         ELSE lastCall[k]]
          /\ UNCHANGED lastMode
          /\ overlapped' = overlapped \cup InProgress
          /\ subbed' = IF Sends /\ r.mode # "" /\ WriteOk(netOk)
                         THEN subbed \ Range(keys) ELSE subbed
          /\ lastOp' = [CallOutcome("Unsubscribe", Sends /\ r.mode # "", netOk,
                                    "unsub", r.mode, keys)
                          EXCEPT !.instruments = DOMAIN subscriptions \ DOMAIN r.subs]
  /\ UNCHANGED <<object, workload, mvars, lateConns, open, nextConn, panicked, conn, connected, done,
                 marketInfoHandler, liveFeedHandler, connectPc, readers>>

\* a ChangeMode that writes its request only when it changed an entry
ChangeMode_OnlyRegistered(mode, keys, netOk) ==
  /\ Running("client")
  /\ IF Len(keys) = 0 THEN NoKeys("ChangeMode", "ChangeMode")
     ELSE /\ subscriptions' = ChangeLoop(subscriptions, mode, keys)
          /\ lastCall' = [k \in Keys |-> IF k \in Range(keys) THEN "ChangeMode"
                                         ELSE lastCall[k]]
          /\ lastMode' = [k \in Keys |-> IF k \in Range(keys) THEN mode ELSE lastMode[k]]
          /\ overlapped' = overlapped \cup InProgress
          /\ UNCHANGED subbed
          /\ lastOp' = CallOutcome("ChangeMode",
                                   Sends /\ Range(keys) \cap DOMAIN subscriptions # {}, netOk, "change_mode", mode, keys)
  /\ UNCHANGED <<object, workload, mvars, lateConns, open, nextConn, panicked, conn, connected, done,
                 marketInfoHandler, liveFeedHandler, connectPc, readers>>

ChangeMode(mode, keys, netOk) ==
  /\ Running("client")
  /\ IF Len(keys) = 0 THEN NoKeys("ChangeMode", "ChangeMode")
     ELSE /\ subscriptions' = ChangeLoop(subscriptions, mode, keys)
          /\ lastCall' = [k \in Keys |-> IF k \in Range(keys) THEN "ChangeMode"
                                         ELSE lastCall[k]]
          /\ lastMode' = [k \in Keys |-> IF k \in Range(keys) THEN mode ELSE lastMode[k]]
          /\ overlapped' = overlapped \cup InProgress
          /\ UNCHANGED subbed
          /\ lastOp' = CallOutcome("ChangeMode", Sends, netOk, "change_mode", mode, keys)
  /\ UNCHANGED <<object, workload, mvars, lateConns, open, nextConn, panicked, conn, connected, done,
                 marketInfoHandler, liveFeedHandler, connectPc, readers>>

OnMarketInfo(callback) ==
  /\ Running("client")
  /\ marketInfoHandler' = callback
  /\ lastOp' = [NoOp EXCEPT !.op = "OnMarketInfo", !.who = callback]
  /\ UNCHANGED <<object, workload, mvars, lateConns, open, nextConn, panicked, conn, connected, done,
                 subscriptions, liveFeedHandler, connectPc, readers, overlapped,
                 lastCall, lastMode, subbed>>

OnLiveFeed_BothSlots(callback) ==
  /\ Running("client")
  /\ liveFeedHandler' = callback
  /\ marketInfoHandler' = callback
  /\ lastOp' = [NoOp EXCEPT !.op = "OnLiveFeed", !.who = callback]
  /\ UNCHANGED <<object, workload, mvars, lateConns, open, nextConn, panicked, conn, connected, done,
                 subscriptions, connectPc, readers, overlapped, lastCall, lastMode, subbed>>
OnLiveFeed(callback) ==
  /\ Running("client")
  /\ liveFeedHandler' = callback
  /\ lastOp' = [NoOp EXCEPT !.op = "OnLiveFeed", !.who = callback]
  /\ UNCHANGED <<object, workload, mvars, lateConns, open, nextConn, panicked, conn, connected, done,
                 subscriptions, marketInfoHandler, connectPc, readers, overlapped,
                 lastCall, lastMode, subbed>>

\* Connect(), authorization or dial failed: the error is returned, nothing is touched
ConnectFail(why) ==
  /\ Running("client")
  /\ lastOp' = [NoOp EXCEPT !.op = "Connect", !.err = why]
  /\ UNCHANGED <<object, workload, mvars, lateConns, cvars, open, nextConn, panicked>>

\* Connect(), authorization and dial succeeded (no lock is held and no check
\* is made before the dial); under the lock the handle and the flag are
\* stored; readMessages is started
ConnectDial ==
  /\ Running("client")
  /\ nextConn < MaxConns
  /\ nextConn' = nextConn + 1
  /\ open' = open \cup {nextConn + 1}
  /\ conn' = nextConn + 1
  /\ connected' = TRUE
  /\ readers' = Bump(readers, "select", 1)
  /\ connectPc' = [connectPc EXCEPT ![nextConn + 1] = "replay"]
  /\ subbed' = {}
  /\ overlapped' = IF InProgress = {} THEN overlapped
                   ELSE overlapped \cup InProgress \cup {nextConn + 1}
  /\ lateConns' = IF done THEN lateConns \cup {nextConn + 1} ELSE lateConns
  /\ UNCHANGED <<object, workload, mvars, panicked, lastOp, done, subscriptions,
                 marketInfoHandler, liveFeedHandler, lastCall, lastMode>>

\* subscribeToExistingInstruments: the registry grouped by mode
modeGroups_PerInstrument(subs) ==
  {[mode |-> subs[k], keys |-> {k}] : k \in DOMAIN subs}
modeGroups(subs) ==
  {[mode |-> m, keys |-> {k \in DOMAIN subs : subs[k] = m}] :
     m \in {subs[k] : k \in DOMAIN subs}}

\* the request sequences the two map iterations may produce
ReplayPlans(subs) ==
  UNION {{[i \in 1..Len(gs) |-> Request("sub", gs[i].mode, ko[i])] :
            ko \in {f \in [1..Len(gs) -> UNION {Orders(S) : S \in SUBSET Keys}] :
                      \A i \in 1..Len(gs) : f[i] \in Orders(gs[i].keys)}} :
         gs \in Orders(modeGroups(subs))}

\* a Connect() that closes the socket when a replay write fails
ConnectReplay_DropOnError(c, plan, n) ==
  /\ Running("client")
  /\ connectPc[c] = "replay"
  /\ plan \in ReplayPlans(subscriptions)
  /\ n \in 0..Len(plan)
  /\ (conn \notin open /\ Len(plan) > 0) => n = 0
  /\ connectPc' = [connectPc EXCEPT ![c] = "idle"]
  /\ connected' = IF n < Len(plan) THEN FALSE ELSE connected
  /\ open' = IF n < Len(plan) THEN open \ {conn} ELSE open
  /\ overlapped' = overlapped \ {c}
  /\ subbed' = IF InProgress = {c} THEN {}
               ELSE subbed \cup UNION {Range(plan[i].keys) : i \in 1..n}
  /\ lastOp' = [NoOp EXCEPT !.op = "Connect", !.call = c, !.conn = conn, !.dialed = TRUE,
                            !.overlapped = c \in overlapped,
                            !.err = IF n < Len(plan) THEN "write" ELSE "",
                            !.frames = SubSeq(plan, 1, n)]
  /\ UNCHANGED <<object, workload, mvars, lateConns, nextConn, panicked, conn, done,
                 subscriptions, marketInfoHandler, liveFeedHandler, readers,
                 lastCall, lastMode>>

\* Connect(), last step: the replay under the read lock, on the current
\* ws.conn; the first failed write ends it with an error.  n writes succeed
ConnectReplay(c, plan, n) ==
  /\ Running("client")
  /\ connectPc[c] = "replay"
  /\ plan \in ReplayPlans(subscriptions)
  /\ n \in 0..Len(plan)
  /\ (conn \notin open /\ Len(plan) > 0) => n = 0
  /\ connectPc' = [connectPc EXCEPT ![c] = "idle"]
  /\ overlapped' = overlapped \ {c}
  /\ subbed' = IF InProgress = {c} THEN {}
               ELSE subbed \cup UNION {Range(plan[i].keys) : i \in 1..n}
  /\ lastOp' = [NoOp EXCEPT !.op = "Connect", !.call = c, !.conn = conn, !.dialed = TRUE,
                            !.overlapped = c \in overlapped,
                            !.err = IF n < Len(plan) THEN "write" ELSE "",
                            !.frames = SubSeq(plan, 1, n)]
  /\ UNCHANGED <<object, workload, mvars, lateConns, open, nextConn, panicked, conn, connected, done,
                 subscriptions, marketInfoHandler, liveFeedHandler, readers,
                 lastCall, lastMode>>

\* a Close() that also empties the registry
Close_ClearsRegistry ==
  /\ Running("client")
  /\ connected' = FALSE
  /\ subscriptions' = <<>>
  /\ IF done
       THEN /\ panicked' = TRUE
            /\ lastOp' = [NoOp EXCEPT !.op = "Close", !.err = "panic"]
            /\ UNCHANGED <<done, open>>
       ELSE /\ done' = TRUE
            /\ open' = open \ {conn}
            /\ lastOp' = [NoOp EXCEPT !.op = "Close", !.conn = conn]
            /\ UNCHANGED panicked
  /\ UNCHANGED <<object, workload, mvars, lateConns, nextConn, conn, marketInfoHandler,
                 liveFeedHandler, connectPc, readers, overlapped, lastCall, lastMode, subbed>>

\* Close(): closing the done channel a second time panics
Close ==
  /\ Running("client")
  /\ connected' = FALSE
  /\ IF done
       THEN /\ panicked' = TRUE
            /\ lastOp' = [NoOp EXCEPT !.op = "Close", !.err = "panic"]
            /\ UNCHANGED <<done, open>>
       ELSE /\ done' = TRUE
            /\ open' = open \ {conn}
            /\ lastOp' = [NoOp EXCEPT !.op = "Close", !.conn = conn]
            /\ UNCHANGED panicked
  /\ UNCHANGED <<object, workload, mvars, lateConns, nextConn, conn, subscriptions, marketInfoHandler,
                 liveFeedHandler, connectPc, readers, overlapped, lastCall, lastMode, subbed>>

(* ---- translation of a decoded FeedResponse ---- *)
LTPCData(feed) == [LTP |-> feed.ltp, LTQ |-> Int64(feed)]
NestedLTPC(feed) == IF feed.hasLtpc THEN Some(LTPCData(feed)) ELSE None

\* the entries of the wire lists and groups, and their translations
WireQuote == [bidQ |-> 1, bidP |-> 2, askQ |-> 3, askP |-> 4]
WireGreeks == [delta |-> 1, theta |-> 2, gamma |-> 3, vega |-> 4, rho |-> 5]
WireOhlc == [interval |-> "1d", open |-> 1, high |-> 2, low |-> 3, close |-> 4, vol |-> 5, ts |-> 6]
Quote(q) == [BidQ |-> q.bidQ, BidP |-> q.bidP, AskQ |-> q.askQ, AskP |-> q.askP]
OptionGreeks(g) ==
  [Delta |-> g.delta, Theta |-> g.theta, Gamma |-> g.gamma, Vega |-> g.vega, Rho |-> g.rho]
OHLC(o) ==
  [Interval |-> o.interval, Open |-> o.open, High |-> o.high, Low |-> o.low,
   Close |-> o.close, Volume |-> o.vol, TS |-> o.ts]
\* a list group: appended entry by entry when the group is non-nil, else the
\* nil slice
QuoteList(feed, group) ==
  IF group \in feed.groups THEN [i \in 1..feed.items |-> Quote(WireQuote)] ELSE <<>>
OhlcList(feed) ==
  IF "ohlc" \in feed.groups THEN [i \in 1..feed.items |-> OHLC(WireOhlc)] ELSE <<>>
NestedGreeks(feed) ==
  IF "greeks" \in feed.groups THEN Some(OptionGreeks(WireGreeks)) ELSE None

\* (the scalar fields ATP, VTT, OI, IV, TBQ, TSQ are copied as they are and
\* left out)
convertFullFeed_ZeroFilled(feed) ==
  [MarketFF |-> Some([LTPC |-> Some(LTPCData(feed)), MarketLevel |-> QuoteList(feed, "level"),
                      OptionGreeks |-> NestedGreeks(feed), MarketOHLC |-> OhlcList(feed)]),
   IndexFF |-> Some([LTPC |-> Some(LTPCData(feed)), MarketOHLC |-> OhlcList(feed)])]
convertFullFeed(feed) ==
  [MarketFF |-> IF feed.variant = "marketFF"
                  THEN Some([LTPC |-> NestedLTPC(feed),
                             MarketLevel |-> QuoteList(feed, "level"),
                             OptionGreeks |-> NestedGreeks(feed),
                             MarketOHLC |-> OhlcList(feed)])
                  ELSE None,
   IndexFF |-> IF feed.variant = "indexFF"
                 THEN Some([LTPC |-> NestedLTPC(feed), MarketOHLC |-> OhlcList(feed)])
                 ELSE None]

convertFirstLevelWithGreeks(feed) ==
  [LTPC |-> NestedLTPC(feed),
   FirstDepth |-> IF "depth" \in feed.groups THEN Some(Quote(WireQuote)) ELSE None,
   OptionGreeks |-> NestedGreeks(feed)]

FeedData(feed) ==
  [LTPC |-> IF feed.variant = "ltpc" THEN Some(LTPCData(feed)) ELSE None,
   FullFeed |-> IF feed.variant \in {"marketFF", "indexFF", "fullNone"}
                  THEN Some(convertFullFeed(feed)) ELSE None,
   FirstLevelWithGreeks |-> IF feed.variant = "greeks"
                              THEN Some(convertFirstLevelWithGreeks(feed)) ELSE None]

convertLiveFeed(frame) ==
  [Type |-> "live_feed", Feeds |-> [k \in DOMAIN frame.feeds |-> FeedData(frame.feeds[k])]]

\* convertMarketStatus with the zero value "" for an unknown code
convertMarketStatus_ZeroDefault(status) ==
  CASE status = 0 -> "PRE_OPEN_START"
    [] status = 1 -> "PRE_OPEN_END"
    [] status = 2 -> "NORMAL_OPEN"
    [] status = 3 -> "NORMAL_CLOSE"
    [] status = 4 -> "CLOSING_START"
    [] status = 5 -> "CLOSING_END"
    [] OTHER -> ""
\* convertMarketStatus: the switch over the wire's status code
convertMarketStatus(status) ==
  CASE status = 0 -> "PRE_OPEN_START"
    [] status = 1 -> "PRE_OPEN_END"
    [] status = 2 -> "NORMAL_OPEN"
    [] status = 3 -> "NORMAL_CLOSE"
    [] status = 4 -> "CLOSING_START"
    [] status = 5 -> "CLOSING_END"
    [] OTHER -> "NORMAL_OPEN"
\* convertMarketInfo: a MarketInfo is made only when the wire has one, with
\* one entry per wire segment
convertMarketInfo(frame) ==
  [Type |-> "market_info", Feeds |-> <<>>,
   MarketInfo |->
     IF frame.info = None THEN None
     ELSE LET wire == (CHOOSE i \in frame.info : TRUE).SegmentStatus
          IN Some([SegmentStatus |-> [segment \in DOMAIN wire |->
                                        convertMarketStatus(wire[segment])]])]

\* processMessage without the return after a failed Unmarshal: the zero
\* FeedResponse goes on to the switch
ClientCalls_NoDecodeCheck(frame) ==
  IF frame.ok /\ frame.type = "market_info"
    THEN IF marketInfoHandler # "nil"
           THEN <<[cb |-> marketInfoHandler, msg |-> convertMarketInfo(frame)]>> ELSE <<>>
  ELSE IF liveFeedHandler # "nil"
           THEN <<[cb |-> liveFeedHandler, msg |-> convertLiveFeed(frame)]>> ELSE <<>>

\* WebSocket.processMessage: the callback invocations one received payload causes
ClientCalls_DefaultLive(frame) ==
  IF ~frame.ok THEN <<>>
  ELSE IF frame.type = "market_info"
    THEN IF marketInfoHandler # "nil"
           THEN <<[cb |-> marketInfoHandler, msg |-> convertMarketInfo(frame)]>> ELSE <<>>
  ELSE IF liveFeedHandler # "nil"
           THEN <<[cb |-> liveFeedHandler, msg |-> convertLiveFeed(frame)]>> ELSE <<>>
ClientCalls(frame) ==
  IF ~frame.ok THEN <<>>
  ELSE IF frame.type = "market_info"
    THEN IF marketInfoHandler # "nil"
           THEN <<[cb |-> marketInfoHandler, msg |-> convertMarketInfo(frame)]>> ELSE <<>>
  ELSE IF frame.type = "live_feed"
    THEN IF liveFeedHandler # "nil"
           THEN <<[cb |-> liveFeedHandler, msg |-> convertLiveFeed(frame)]>> ELSE <<>>
  ELSE <<>>

\* what lastOp records of a received frame
FrameTag(frame) == IF frame.ok THEN frame.type ELSE "malformed"

\* readMessages without the done case in its select
ReaderSelect_IgnoreDone ==
  /\ Running("client")
  /\ readers.select > 0
  /\ IF FALSE
       THEN /\ connected' = FALSE
            /\ readers' = Bump(readers, "select", -1)
       ELSE /\ readers' = BumpRead(Bump(readers, "select", -1), conn, 1)
            /\ UNCHANGED connected
  /\ UNCHANGED <<object, workload, mvars, lateConns, open, nextConn, panicked, lastOp, conn, done,
                 subscriptions, marketInfoHandler, liveFeedHandler, connectPc, overlapped,
                 lastCall, lastMode, subbed>>

\* readMessages, top of the loop: a closed done channel wins the select, the
\* loop returns and the deferred function clears the flag; otherwise
\* ReadMessage is entered on the current ws.conn
ReaderSelect ==
  /\ Running("client")
  /\ readers.select > 0
  /\ IF done
       THEN /\ connected' = FALSE
            /\ readers' = Bump(readers, "select", -1)
       ELSE /\ readers' = BumpRead(Bump(readers, "select", -1), conn, 1)
            /\ UNCHANGED connected
  /\ UNCHANGED <<object, workload, mvars, lateConns, open, nextConn, panicked, lastOp, conn, done,
                 subscriptions, marketInfoHandler, liveFeedHandler, connectPc, overlapped,
                 lastCall, lastMode, subbed>>

\* the default branch reads ws.conn without the lock after the select: a
\* loop that passed its select and has received nothing since may not have
\* loaded the handle yet, and when a Connect() stored a new handle meanwhile
\* it enters ReadMessage on that one
ReaderLateRead(c) ==
  /\ Running("client")
  /\ readers.read[c] > 0
  /\ conn # c
  /\ readers' = BumpRead(BumpRead(readers, c, -1), conn, 1)
  /\ UNCHANGED <<object, workload, mvars, lateConns, open, nextConn, panicked, lastOp, conn,
                 connected, done, subscriptions, marketInfoHandler, liveFeedHandler,
                 connectPc, overlapped, lastCall, lastMode, subbed>>

\* ReadMessage returned a payload (of either frame kind): processMessage;
\* with no callback to invoke the loop is back at its top, otherwise the
\* callback is entered
ReaderFrame(c, frame) ==
  /\ Running("client")
  /\ readers.read[c] > 0 /\ c \in open
  /\ readers' = IF ClientCalls(frame) = <<>>
                  THEN Bump(BumpRead(readers, c, -1), "select", 1)
                  ELSE [BumpRead(readers, c, -1) EXCEPT !.cb[c] = @ + 1]
  /\ lastOp' = [NoOp EXCEPT !.op = "frame", !.conn = c, !.who = frame.kind,
                            !.calls = ClientCalls(frame), !.tag = FrameTag(frame),
                            !.instruments = DOMAIN frame.feeds, !.feeds = frame.feeds,
                            !.info = frame.info]
  /\ UNCHANGED <<object, workload, mvars, lateConns, open, nextConn, panicked, conn, connected, done,
                 subscriptions, marketInfoHandler, liveFeedHandler, connectPc,
                 overlapped, lastCall, lastMode, subbed>>

\* the callback returns to processMessage, which returns to the loop
CallbackReturn(c) ==
  /\ Running("client")
  /\ readers.cb[c] > 0
  /\ readers' = [Bump(readers, "select", 1) EXCEPT !.cb[c] = @ - 1]
  /\ UNCHANGED <<object, workload, mvars, lateConns, open, nextConn, panicked, lastOp, conn, connected,
                 done, subscriptions, marketInfoHandler, liveFeedHandler, connectPc,
                 overlapped, lastCall, lastMode, subbed>>

\* ReadMessage returned an error: the loop returns, the deferred function
\* clears the flag; the socket is dead
ReaderReadErr(c) ==
  /\ Running("client")
  /\ readers.read[c] > 0
  /\ readers' = BumpRead(readers, c, -1)
  /\ connected' = FALSE
  /\ open' = open \ {c}
  /\ lastOp' = [NoOp EXCEPT !.op = "readErr", !.conn = c]
  /\ UNCHANGED <<object, workload, mvars, lateConns, nextConn, panicked, conn, done, subscriptions,
                 marketInfoHandler, liveFeedHandler, connectPc, overlapped,
                 lastCall, lastMode, subbed>>

\* the client without its callbacks: the registry calls, Connect(), Close()
\* and the receive loop of a peer that sends nothing
RegistryNext ==
  \/ \E mode \in UserModes, keys \in UserKeyLists, netOk \in NetOutcomes :
       SubscribeWithMode(mode, keys, netOk)
  \/ \E keys \in UserKeyLists, netOk \in NetOutcomes : Subscribe(keys, netOk)
  \/ \E keys \in UserKeyLists, netOk \in NetOutcomes : Unsubscribe(keys, netOk)
  \/ \E mode \in UserModes, keys \in UserKeyLists, netOk \in NetOutcomes :
       ChangeMode(mode, keys, netOk)
  \/ \E why \in {"authorization", "dial"} : ConnectFail(why)
  \/ ConnectDial
  \* replay plans are drawn only for a Connect() that has reached its replay
  \/ \E c \in {x \in ConnIds : lastOp = NoOp /\ connectPc[x] = "replay"} :
       \E plan \in ReplayPlans(subscriptions) : \E n \in 0..Len(plan) :
         ConnectReplay(c, plan, n)
  \/ Close
  \/ ReaderSelect
  \/ \E c \in ConnIds : ReaderLateRead(c)
  \/ \E c \in ConnIds : ReaderReadErr(c)

ClientNext ==
  \/ RegistryNext
  \/ \E callback \in UserCallbacks : OnMarketInfo(callback)
  \/ \E callback \in UserCallbacks : OnLiveFeed(callback)
  \* frames are drawn only for a socket that a receive loop is reading
  \/ \E c \in {x \in ConnIds : lastOp = NoOp /\ readers.read[x] > 0}, frame \in PeerFrames :
       ReaderFrame(c, frame)
  \/ \E c \in ConnIds : CallbackReturn(c)

(* ============================ behaviours ============================== *)
Init ==
  /\ object \in Objects
  /\ workload \in (IF object = "client" THEN {"calls", "feed", "shapes", "modes"} ELSE {"feed"})
  /\ open = {} /\ nextConn = 0 /\ panicked = FALSE /\ lastOp = NoOp
  /\ ws = Nil /\ isConnecting = FALSE /\ shouldReconnect = TRUE
  /\ reconnectAttempts = 0 /\ reconnectDelay = BaseDelay
  /\ ctxDone = FALSE /\ mu = "free"
  /\ InstrumentKeys \in (IF object = "manager" THEN ConstructionLists ELSE {<<>>})
  /\ onPriceUpdate \in (IF object = "manager" THEN BOOLEAN ELSE {FALSE})
  /\ starting = 0 /\ stopping = 0 /\ timers = 0
  /\ dialing = [w \in Callers |-> 0]
  /\ hm = [select |-> 0, default |-> 0, disc |-> 0, stop |-> 0, exit |-> 0,
           read |-> [c \in ConnIds |-> 0]]
  /\ delays = <<>> /\ awaitingRedial = FALSE /\ stops = 0
  /\ url = "construction" /\ connUrl = [c \in ConnIds |-> ""] /\ lateConns = {}
  /\ updating = 0
  /\ conn = Nil /\ connected = FALSE /\ done = FALSE
  /\ subscriptions = <<>>
  /\ marketInfoHandler = "nil" /\ liveFeedHandler = "nil"
  /\ connectPc = [c \in ConnIds |-> "idle"]
  /\ readers = [select |-> 0, read |-> [c \in ConnIds |-> 0], cb |-> [c \in ConnIds |-> 0]]
  /\ overlapped = {}
  /\ lastCall = [k \in Keys |-> "none"] /\ lastMode = [k \in Keys |-> "none"]
  /\ subbed = {}

Next == ManagerNext \/ ClientNext \/ Return

Spec == Init /\ [][Next]_vars

\* the behaviours of Spec by what they are about.  The object and the
\* workload never change, so these three specifications together have the
\* behaviours of Spec, and each has the actions that its objects and inputs
\* can take
\* the manager alone
InitManager == Init /\ object = "manager"
SpecManager == InitManager /\ [][ManagerNext \/ Return]_vars
\* the manager, and the client with callbacks and a peer that sends frames
InitFeed == Init /\ workload \in {"feed", "shapes"}
SpecFeed == InitFeed /\ [][Next]_vars
\* the client's registry calls with every key list and mode, the peer silent
InitRegistry == Init /\ workload \in {"calls", "modes"}
SpecRegistry == InitRegistry /\ [][RegistryNext \/ Return]_vars

(* ============================== properties ============================ *)

\* C1: on the WebSocket client, after any sequence of SubscribeWithMode,
\* ChangeMode and Unsubscribe calls with non-empty key lists (whatever the
\* connection state and whatever the outcome of the write), every registered
\* key carries the mode of the last SubscribeWithMode or ChangeMode call that
\* named it, and a key whose last naming call was Unsubscribe is absent (a
\* ChangeMode that names an unregistered key registers nothing, so such a key
\* has no registered mode)
C1_RegistryFidelity ==
  object = "client" =>
    \A k \in Keys :
      /\ k \in DOMAIN subscriptions =>
           /\ lastCall[k] \in {"SubscribeWithMode", "ChangeMode"}
           /\ subscriptions[k] = lastMode[k]
      /\ lastCall[k] = "Unsubscribe" => k \notin DOMAIN subscriptions

\* a key whose mode was overwritten by a later call, next to a key removed
\* after having been registered, the last call having failed on the wire
C1_Witness ==
  /\ object = "client"
  /\ "X" \in DOMAIN subscriptions /\ subscriptions["X"] = "full"
  /\ lastCall["X"] = "ChangeMode"
  /\ lastCall["Y"] = "Unsubscribe" /\ lastMode["Y"] = "ltpc"
  /\ "Y" \notin DOMAIN subscriptions
  /\ lastOp.op \in {"SubscribeWithMode", "ChangeMode", "Unsubscribe"}
  /\ lastOp.err = "write"

\* C2: a Connect() that returns nil and overlapped no other registry call or
\* Connect() wrote, on the socket it dialed, exactly one "sub" request per
\* mode present in the registry, each listing exactly the registered keys of
\* that mode; with an empty registry it wrote nothing
C2_ReplayOnConnect ==
  (object = "client" /\ lastOp.op = "Connect" /\ lastOp.err = "" /\ lastOp.dialed
     /\ ~lastOp.overlapped) =>
    LET fs == lastOp.frames IN
    /\ lastOp.conn = lastOp.call
    /\ \A i \in 1..Len(fs) :
         /\ fs[i].method = "sub"
         /\ Len(fs[i].keys) > 0
         /\ \A a, b \in 1..Len(fs[i].keys) : fs[i].keys[a] = fs[i].keys[b] => a = b
         /\ Range(fs[i].keys) = {k \in DOMAIN subscriptions : subscriptions[k] = fs[i].mode}
    /\ \A i, j \in 1..Len(fs) : fs[i].mode = fs[j].mode => i = j
    /\ {fs[i].mode : i \in 1..Len(fs)} = {subscriptions[k] : k \in DOMAIN subscriptions}

\* the second connection, made after the first one was lost, replays a
\* registry of two modes
C2_Witness ==
  /\ object = "client"
  /\ lastOp.op = "Connect" /\ lastOp.err = "" /\ ~lastOp.overlapped
  /\ lastOp.call = 2 /\ 1 \notin open
  /\ Len(lastOp.frames) = 2

\* C3: the reconnect timers scheduled by consecutive read failures wait 1s,
\* 2s, 4s, and there is no fourth one
C3_BackoffSchedule ==
  object = "manager" =>
    /\ Len(delays) <= maxReconnectAttempts
    /\ \A i \in 1..Len(delays) : delays[i] = BaseDelay * 2^(i - 1)

\* C4: the connect of a reconnect timer begins a dial only while reconnection
\* is still wanted: a timer pending when Stop() was called dials nothing
C4_StopCancelsReconnect ==
  [][dialing'["timer"] > dialing["timer"] => shouldReconnect]_vars

\* C5: connect() returns nil without dialing when a connect is in progress or
\* a connection is held; at most one dial is in flight, it began with no
\* connection held, and a held connection is only ever dropped, never
\* replaced by another
C5_ConnectIdempotent ==
  /\ [](object = "manager" =>
          /\ dialing["user"] + dialing["timer"] <= 1
          /\ (dialing["user"] + dialing["timer"] > 0) => (isConnecting /\ ws = Nil)
          /\ (lastOp.op = "connect" /\ ~lastOp.dialed) => lastOp.err = "")
  /\ [][(\E w \in Callers : dialing'[w] > dialing[w]) => (~isConnecting /\ ws = Nil)]_vars
  /\ [][ws # Nil => ws' \in {ws, Nil}]_vars

\* a reconnect timer fires while a connection is held: its connect returns
\* nil and dials nothing
C5_Witness ==
  /\ object = "manager"
  /\ lastOp.op = "connect" /\ lastOp.who = "timer" /\ ~lastOp.dialed
  /\ ws # Nil /\ ws \in open

\* C6: the WebSocket client never has two dialed sockets open at once
C6_SingleSocket ==
  object = "client" => Cardinality(open) <= 1

\* C7: after a read failure, reconnection permitted and Stop() not called, a
\* dial is eventually attempted.  Only the timer scheduled by handleDisconnect
\* can bring that dial about, so until a dial begins the timer must be pending
C7_ReconnectStaysPending ==
  (object = "manager" /\ awaitingRedial /\ ~ctxDone /\ shouldReconnect /\ ~panicked) =>
    timers > 0

\* C8: a scheduled reconnect whose dial fails, with reconnection still wanted
\* and attempts left, leaves another reconnect scheduled
C8_FailedRedialReschedules ==
  (object = "manager" /\ lastOp.op = "connect" /\ lastOp.who = "timer"
     /\ lastOp.err = "dial" /\ shouldReconnect /\ ~ctxDone
     /\ reconnectAttempts < maxReconnectAttempts) =>
    timers > 0

\* C9: on the WebSocket client with a live-feed callback registered, a
\* decodable binary frame tagged live_feed or initial_feed causes exactly one
\* call, of that callback, with one FeedData per instrument of the frame
C9_FeedFrameDispatch ==
  (object = "client" /\ lastOp.op = "frame" /\ lastOp.who = "binary"
     /\ lastOp.tag \in {"live_feed", "initial_feed"} /\ liveFeedHandler # "nil") =>
    /\ Len(lastOp.calls) = 1
    /\ lastOp.calls[1].cb = liveFeedHandler
    /\ DOMAIN lastOp.calls[1].msg.Feeds = lastOp.instruments

\* C10: on both receive paths a decodable frame whose tag is not handled
\* causes no callback and changes neither the connection state nor the
\* registry
C10_UnknownTagIgnored ==
  [][(lastOp'.op = "frame" /\ lastOp'.tag = "other" /\ lastOp.op # "frame") =>
       /\ lastOp'.calls = <<>>
       /\ UNCHANGED <<open, nextConn, panicked, ws, isConnecting, shouldReconnect,
                      reconnectAttempts, reconnectDelay, ctxDone, InstrumentKeys,
                      onPriceUpdate, timers, dialing, conn, connected, done,
                      subscriptions, marketInfoHandler, liveFeedHandler>>]_vars

\* the client, both callbacks registered and a key subscribed, has just
\* processed a frame of an unknown tag
C10_Witness ==
  /\ object = "client"
  /\ lastOp.op = "frame" /\ lastOp.tag = "other" /\ lastOp.who = "binary"
  /\ liveFeedHandler # "nil" /\ marketInfoHandler # "nil"
  /\ connected

\* C11: in both receive loops an inbound text frame, whatever its payload,
\* causes no market-info, live-feed or price callback
C11_TextFramesNotParsed ==
  (lastOp.op = "frame" /\ lastOp.who = "text") => lastOp.calls = <<>>

\* C12: every entry of a translated live-feed message has exactly the
\* structure of its wire feed: only the field of the populated variant is
\* set (LTPC, FullFeed or FirstLevelWithGreeks), inside FullFeed only the
\* populated class (MarketFF, or IndexFF with LTPC and OHLC only), and a
\* nested group (LTPC, depth, greeks, OHLC) is present only if it is on the
\* wire; an LTPC feed with ltq = 0 gives LTPC with LTQ = 0
C12_VariantExclusivity ==
  (object = "client" /\ lastOp.op = "frame" /\ lastOp.calls # <<>>
     /\ lastOp.calls[1].msg.Type = "live_feed") =>
    \A k \in DOMAIN lastOp.feeds :
      LET w == lastOp.feeds[k]
          d == lastOp.calls[1].msg.Feeds[k]
      IN
      /\ (d.LTPC # None) <=> (w.variant = "ltpc")
      /\ (d.FullFeed # None) <=> (w.variant \in {"marketFF", "indexFF", "fullNone"})
      /\ (d.FirstLevelWithGreeks # None) <=> (w.variant = "greeks")
      /\ w.variant = "ltpc" => d.LTPC = {[LTP |-> w.ltp, LTQ |-> Int64(w)]}
      /\ d.FullFeed # None =>
           LET ff == CHOOSE x \in d.FullFeed : TRUE IN
           /\ (ff.MarketFF # None) <=> (w.variant = "marketFF")
           /\ (ff.IndexFF # None) <=> (w.variant = "indexFF")
           /\ ff.MarketFF # None =>
                LET m == CHOOSE x \in ff.MarketFF : TRUE IN
                /\ (m.LTPC # None) <=> w.hasLtpc
                /\ (m.OptionGreeks # None) <=> ("greeks" \in w.groups)
                /\ Len(m.MarketLevel) = IF "level" \in w.groups THEN w.items ELSE 0
                /\ Len(m.MarketOHLC) = IF "ohlc" \in w.groups THEN w.items ELSE 0
           /\ ff.IndexFF # None =>
                LET x == CHOOSE x \in ff.IndexFF : TRUE IN
                /\ DOMAIN x = {"LTPC", "MarketOHLC"}
                /\ (x.LTPC # None) <=> w.hasLtpc
                /\ Len(x.MarketOHLC) = IF "ohlc" \in w.groups THEN w.items ELSE 0
      /\ d.FirstLevelWithGreeks # None =>
           LET g == CHOOSE x \in d.FirstLevelWithGreeks : TRUE IN
           /\ (g.LTPC # None) <=> w.hasLtpc
           /\ (g.FirstDepth # None) <=> ("depth" \in w.groups)
           /\ (g.OptionGreeks # None) <=> ("greeks" \in w.groups)

\* the live-feed callback received the translation of a Market-class full
\* feed that carries greeks but neither LTPC, depth nor OHLC
C12_Witness ==
  /\ object = "client"
  /\ lastOp.op = "frame" /\ Len(lastOp.calls) = 1
  /\ lastOp.calls[1].msg.Type = "live_feed"
  /\ "X" \in DOMAIN lastOp.feeds
  /\ lastOp.feeds["X"].variant = "marketFF"
  /\ ~lastOp.feeds["X"].hasLtpc
  /\ lastOp.feeds["X"].groups = {"greeks"}

\* C13: SubscribeWithMode, Subscribe, Unsubscribe and ChangeMode called with
\* no instrument keys return an error, leave the registry unchanged and write
\* no frame, connected or not
C13_EmptyKeysRejected ==
  [][(lastOp.op = "none"
        /\ lastOp'.op \in {"SubscribeWithMode", "Unsubscribe", "ChangeMode"}
        /\ lastOp'.keys = <<>>) =>
       /\ lastOp'.err = "no instrument keys provided"
       /\ lastOp'.frames = <<>>
       /\ UNCHANGED <<subscriptions, conn, connected, open, nextConn, done>>]_vars

\* Subscribe() without keys has just returned its error on a connected client
\* that has a subscription
C13_Witness ==
  /\ object = "client"
  /\ lastOp.op = "SubscribeWithMode" /\ lastOp.who = "Subscribe" /\ lastOp.keys = <<>>
  /\ lastOp.err = "no instrument keys provided"
  /\ connected /\ conn \in open
  /\ DOMAIN subscriptions # {}

\* C14: a subscribe, unsubscribe or changeMode call made while the client is
\* not connected updates the registry, writes no frame and returns nil; every
\* Connect() that returns nil has sent a "sub" request for every key then in
\* the registry, with the key's mode
C14_DeferredSubscription ==
  /\ [][(lastOp.op = "none" /\ ~connected /\ lastOp'.keys # <<>>
           /\ lastOp'.op \in {"SubscribeWithMode", "Unsubscribe", "ChangeMode"}) =>
          /\ lastOp'.frames = <<>> /\ lastOp'.err = ""
          /\ \A k \in Keys :
               IF k \in {lastOp'.keys[i] : i \in 1..Len(lastOp'.keys)}
                 THEN CASE lastOp'.op = "SubscribeWithMode" ->
                             k \in DOMAIN subscriptions' /\ subscriptions'[k] = lastOp'.mode
                        [] lastOp'.op = "Unsubscribe" -> k \notin DOMAIN subscriptions'
                        [] lastOp'.op = "ChangeMode" ->
                             /\ (k \in DOMAIN subscriptions') = (k \in DOMAIN subscriptions)
                             /\ k \in DOMAIN subscriptions' => subscriptions'[k] = lastOp'.mode
                 ELSE /\ (k \in DOMAIN subscriptions') = (k \in DOMAIN subscriptions)
                      /\ k \in DOMAIN subscriptions' => subscriptions'[k] = subscriptions[k]]_vars
  /\ [](lastOp.op = "Connect" /\ lastOp.err = "" /\ lastOp.dialed =>
          \A k \in DOMAIN subscriptions :
            \E i \in 1..Len(lastOp.frames) :
              /\ lastOp.frames[i].method = "sub"
              /\ lastOp.frames[i].mode = subscriptions[k]
              /\ \E j \in 1..Len(lastOp.frames[i].keys) : lastOp.frames[i].keys[j] = k)

\* the first Connect() of a client replays two keys that were subscribed,
\* with different modes, before any connection existed
C14_Witness ==
  /\ object = "client"
  /\ lastOp.op = "Connect" /\ lastOp.err = "" /\ lastOp.call = 1 /\ nextConn = 1
  /\ Len(lastOp.frames) = 2
  /\ DOMAIN subscriptions = {"X", "Y"}

\* C15: SubscribeWithMode(mode, keys) on a connected client sets every given
\* key to the mode, leaves the other keys alone, keeps the connection, and,
\* unless the write fails, writes one "sub" frame with the given mode and
\* exactly the given key list
C15_SubscribeWhileConnected ==
  [][(lastOp.op = "none" /\ connected /\ conn # Nil
        /\ lastOp'.op = "SubscribeWithMode" /\ lastOp'.keys # <<>>) =>
       /\ \A k \in Keys :
            IF k \in {lastOp'.keys[i] : i \in 1..Len(lastOp'.keys)}
              THEN k \in DOMAIN subscriptions' /\ subscriptions'[k] = lastOp'.mode
              ELSE /\ (k \in DOMAIN subscriptions') = (k \in DOMAIN subscriptions)
                   /\ k \in DOMAIN subscriptions' => subscriptions'[k] = subscriptions[k]
       /\ IF lastOp'.err = ""
            THEN lastOp'.frames = <<[method |-> "sub", mode |-> lastOp'.mode,
                                     keys |-> lastOp'.keys]>>
            ELSE lastOp'.frames = <<>>
       /\ UNCHANGED <<conn, connected, open, nextConn>>]_vars

\* a connected client holding X in mode ltpc has just subscribed Y in mode
\* full: one frame, for Y alone
C15_Witness ==
  /\ object = "client"
  /\ lastOp.op = "SubscribeWithMode" /\ lastOp.keys = <<"Y">> /\ lastOp.mode = "full"
  /\ Len(lastOp.frames) = 1
  /\ DOMAIN subscriptions = {"X", "Y"}
  /\ subscriptions["X"] = "ltpc"
  /\ connected /\ conn \in open

\* C16: Unsubscribe removes every given key and, when it writes its "unsub"
\* request, the request's mode is the mode recorded for the first given key
\* that was found in the registry
C16_UnsubscribeFirstMode ==
  [][(lastOp.op = "none" /\ lastOp'.op = "Unsubscribe" /\ lastOp'.keys # <<>>) =>
       LET ks == lastOp'.keys
           found == {i \in 1..Len(ks) : ks[i] \in DOMAIN subscriptions}
       IN
       /\ \A i \in 1..Len(ks) : ks[i] \notin DOMAIN subscriptions'
       /\ \A i \in found :
            ((\A j \in found : i <= j) /\ lastOp'.frames # <<>>) =>
              /\ Len(lastOp'.frames) = 1
              /\ lastOp'.frames[1].method = "unsub"
              /\ lastOp'.frames[1].mode = subscriptions[ks[i]]]_vars

\* C17: ChangeMode leaves the key set of the registry as it is, sets every
\* given key that is registered to the new mode and leaves the modes of the
\* other keys alone
C17_ChangeModeKeepsKeys ==
  [][(lastOp.op = "none" /\ lastOp'.op = "ChangeMode" /\ lastOp'.keys # <<>>) =>
       /\ DOMAIN subscriptions' = DOMAIN subscriptions
       /\ \A k \in DOMAIN subscriptions :
            subscriptions'[k] =
              IF k \in {lastOp'.keys[i] : i \in 1..Len(lastOp'.keys)}
                THEN lastOp'.mode ELSE subscriptions[k]]_vars

\* ChangeMode(full, X, Y) on a registry that held X alone: one entry, X in
\* mode full, and Y was not added
C17_Witness ==
  /\ object = "client"
  /\ lastOp.op = "ChangeMode" /\ lastOp.mode = "full" /\ lastOp.keys = <<"X", "Y">>
  /\ DOMAIN subscriptions = {"X"} /\ subscriptions["X"] = "full"
  /\ lastCall["Y"] = "ChangeMode"

\* C18: a registration fills the slot of its category and only that slot,
\* nothing else changes a slot, and a received message invokes at most one
\* callback: the one in the slot of its category, once, or nothing when the
\* slot is empty
C18_SingleCallbackSlot ==
  /\ [][/\ lastOp'.op = "OnLiveFeed" /\ lastOp.op = "none" =>
             liveFeedHandler' = lastOp'.who /\ UNCHANGED marketInfoHandler
        /\ lastOp'.op = "OnMarketInfo" /\ lastOp.op = "none" =>
             marketInfoHandler' = lastOp'.who /\ UNCHANGED liveFeedHandler
        /\ liveFeedHandler' # liveFeedHandler => lastOp'.op = "OnLiveFeed"
        /\ marketInfoHandler' # marketInfoHandler => lastOp'.op = "OnMarketInfo"]_vars
  /\ [](object = "client" /\ lastOp.op = "frame" =>
          /\ Len(lastOp.calls) <= 1
          /\ \A i \in 1..Len(lastOp.calls) :
               /\ lastOp.calls[i].msg.Type = "live_feed" =>
                    lastOp.tag = "live_feed" /\ lastOp.calls[i].cb = liveFeedHandler
               /\ lastOp.calls[i].msg.Type = "market_info" =>
                    lastOp.tag = "market_info" /\ lastOp.calls[i].cb = marketInfoHandler
               /\ lastOp.calls[i].cb # "nil"
          /\ (lastOp.tag = "live_feed" /\ liveFeedHandler # "nil") => Len(lastOp.calls) = 1
          /\ (lastOp.tag = "market_info" /\ marketInfoHandler # "nil") =>
               Len(lastOp.calls) = 1)

\* a live-feed frame was delivered to g, the callback in the live-feed slot,
\* while the market-info slot holds f
C18_Witness ==
  /\ object = "client"
  /\ lastOp.op = "frame" /\ lastOp.tag = "live_feed"
  /\ Len(lastOp.calls) = 1 /\ lastOp.calls[1].cb = "g"
  /\ liveFeedHandler = "g" /\ marketInfoHandler = "f"

\* C19: every Stop() of the manager ends with no connection handle and the
\* context cancelled, and a Stop() called when an earlier Stop() has left the
\* manager stopped (reconnection disabled, context cancelled, no handle)
\* changes nothing and does not panic
C19_StopIdempotent ==
  /\ [](object = "manager" /\ lastOp.op = "Stop" => ws = Nil /\ ctxDone)
  /\ [][(stops >= 1 /\ ws = Nil /\ ~shouldReconnect /\ ctxDone /\ lastOp.op = "none"
           /\ (stopping' > stopping \/ lastOp'.op = "Stop")) =>
          UNCHANGED <<ws, shouldReconnect, ctxDone, open, nextConn, panicked, isConnecting,
                      reconnectAttempts, reconnectDelay, timers, dialing, hm,
                      InstrumentKeys, onPriceUpdate>>]_vars

\* a second Stop() has returned; the first one had closed the only socket
\* ever dialed, and this one found no handle
C19_Witness ==
  /\ object = "manager"
  /\ lastOp.op = "Stop" /\ lastOp.who = "user" /\ lastOp.conn = Nil
  /\ stops = 2 /\ nextConn = 1 /\ open = {} /\ delays = <<>>
  /\ ~shouldReconnect /\ ~panicked

\* C20: a second Close() of a WebSocket client returns normally: it does not
\* panic and leaves the client closed
C20_CloseIdempotent ==
  (object = "client" /\ lastOp.op = "Close") =>
    /\ ~panicked /\ lastOp.err = ""
    /\ done /\ ~connected

\* C21: a connection made by a reconnect timer is dialed with a URL obtained
\* from the Authorization Resolver for that attempt: it is the URL of no
\* earlier connection
C21_ReconnectReauthorizes ==
  (object = "manager" /\ lastOp.op = "connect" /\ lastOp.who = "timer" /\ lastOp.conn # Nil) =>
    \A c \in 1..(lastOp.conn - 1) : connUrl[c] # connUrl[lastOp.conn]

\* C24: on the manager, whatever the interleaving of Stop(),
\* UpdateInstruments(), connect() and the receive loop, ReadMessage and
\* WriteMessage are never called through a nil connection handle
C24_NoNilHandleUse ==
  object = "manager" => lastOp.err # NilHandle

\* C25 (manager): once Stop() has been called, no receive loop schedules a
\* reconnect as it terminates
C25_StoppedLoopSchedulesNothing ==
  [][(object = "manager" /\ stops + stopping > 0) => timers' <= timers]_vars

\* C28: every connect() of the manager that dialed and returned nil, the
\* first as well as a reconnect, wrote on the new connection exactly one "sub"
\* request of mode ltpc listing the current instrument list, or nothing when
\* that list is empty; the list is the one given at construction until
\* UpdateInstruments replaces it with the list it was given
C28_ManagerReplay ==
  /\ [](object = "manager" /\ lastOp.op = "connect" /\ lastOp.conn # Nil /\ lastOp.err = "" =>
          /\ lastOp.conn = ws
          /\ lastOp.frames =
               IF InstrumentKeys = <<>> THEN <<>>
               ELSE <<[method |-> "sub", mode |-> "ltpc", keys |-> InstrumentKeys]>>)
  /\ [][InstrumentKeys' # InstrumentKeys =>
          lastOp'.op = "UpdateInstruments" /\ InstrumentKeys' = lastOp'.keys]_vars

\* a reconnect timer's connect() has replayed, on the second connection, a
\* list that only UpdateInstruments can have set
C28_Witness ==
  /\ object = "manager"
  /\ lastOp.op = "connect" /\ lastOp.who = "timer" /\ lastOp.conn = 2 /\ lastOp.err = ""
  /\ InstrumentKeys = <<"Y", "X">>
  /\ Len(lastOp.frames) = 1

ReceiveLoops ==
  IF object = "client"
    THEN readers.select + SumTo(readers.read, MaxConns) + SumTo(readers.cb, MaxConns)
  ELSE hm.select + hm.default + SumTo(hm.read, MaxConns) + hm.disc + hm.stop

\* C23: at any time at most one receive-loop task of the instance is running,
\* and no socket has more than one task reading it
C23_SingleReader ==
  /\ ReceiveLoops <= 1
  /\ \A c \in ConnIds : readers.read[c] <= 1 /\ hm.read[c] <= 1

\* C27: on both receive paths a binary frame that fails to decode invokes no
\* callback, changes neither the handle, the connected flag, the registry nor
\* the reconnect state, schedules nothing, leaves the socket open, and the
\* receive loop is back at the top of its loop
C27_DecodeFailureNonFatal ==
  [][(lastOp.op = "none" /\ lastOp'.op = "frame" /\ lastOp'.who = "binary"
        /\ lastOp'.tag = "malformed") =>
       /\ lastOp'.calls = <<>>
       /\ UNCHANGED <<open, nextConn, panicked, ws, isConnecting, shouldReconnect,
                      reconnectAttempts, reconnectDelay, ctxDone, InstrumentKeys,
                      onPriceUpdate, timers, dialing, conn, connected, done,
                      subscriptions, marketInfoHandler, liveFeedHandler>>
       /\ lastOp'.conn \in open'
       /\ object = "client" => readers'.select = readers.select + 1
       /\ object = "manager" => hm'.select = hm.select + 1]_vars

\* the client, connected with a live-feed callback and a subscription, has
\* just dropped an undecodable binary frame
C27_Witness ==
  /\ object = "client"
  /\ lastOp.op = "frame" /\ lastOp.who = "binary" /\ lastOp.tag = "malformed"
  /\ liveFeedHandler # "nil" /\ DOMAIN subscriptions # {}
  /\ connected /\ conn \in open /\ readers.select = 1

\* C30: the registry changes only in SubscribeWithMode, ChangeMode and
\* Unsubscribe: Connect(), Close(), a read error and the processing of an
\* inbound frame leave its key set and its modes as they are
C30_RegistryIndependent ==
  [][/\ subscriptions' # subscriptions =>
          lastOp'.op \in {"SubscribeWithMode", "ChangeMode", "Unsubscribe"}
     /\ (lastOp.op = "none" /\ lastOp'.op \in {"Connect", "Close", "readErr", "frame"}) =>
          UNCHANGED subscriptions
     /\ (nextConn' # nextConn \/ connected' # connected) => UNCHANGED subscriptions]_vars

\* a registry of two keys in two modes is still there after the second
\* connection of the client has been closed
C30_Witness ==
  /\ object = "client"
  /\ lastOp.op = "Close" /\ nextConn = 2 /\ done /\ ~connected
  /\ DOMAIN subscriptions = {"X", "Y"}
  /\ subscriptions["X"] = "ltpc" /\ subscriptions["Y"] = "full"

\* C22: when the last Connect() in progress returns nil, whatever registry
\* calls ran while it was in progress, every key of the registry has been
\* named in exactly one "sub" request written on the current socket (by the
\* replay or by a call made meanwhile), and no other key has been named in
\* one without being unsubscribed afterwards
C22_ReplayConsistent ==
  [][(lastOp.op = "none" /\ lastOp'.op = "Connect" /\ lastOp'.dialed /\ lastOp'.err = ""
        /\ InProgress' = {}) =>
       LET fs == lastOp'.frames
           named(k) == Cardinality({i \in 1..Len(fs) : k \in Range(fs[i].keys)})
                         + (IF k \in subbed THEN 1 ELSE 0)
       IN \A k \in Keys :
            named(k) = IF k \in DOMAIN subscriptions' THEN 1 ELSE 0]_vars

\* C29: callbacks are invoked from inside the receive loop, which reads the
\* next frame only when the callback has returned: for one connection no two
\* callback invocations are in progress together
C29_SynchronousDispatch ==
  object = "client" => \A c \in ConnIds : readers.cb[c] <= 1

\* C31: when the frame write fails inside SubscribeWithMode, Unsubscribe or
\* ChangeMode on a connected client, the call returns the write error, no
\* frame is written and the registry holds the change the call made: given
\* keys set to the mode, removed, or (if registered) changed, other keys as
\* before
C31_WriteFailureKeepsChange ==
  [][(lastOp.op = "none" /\ lastOp'.err = "write"
        /\ lastOp'.op \in {"SubscribeWithMode", "Unsubscribe", "ChangeMode"}) =>
       /\ connected /\ conn # Nil
       /\ lastOp'.frames = <<>>
       /\ \A k \in Keys :
            IF k \in {lastOp'.keys[i] : i \in 1..Len(lastOp'.keys)}
              THEN CASE lastOp'.op = "SubscribeWithMode" ->
                          k \in DOMAIN subscriptions' /\ subscriptions'[k] = lastOp'.mode
                     [] lastOp'.op = "Unsubscribe" -> k \notin DOMAIN subscriptions'
                     [] lastOp'.op = "ChangeMode" ->
                          /\ (k \in DOMAIN subscriptions') = (k \in DOMAIN subscriptions)
                          /\ k \in DOMAIN subscriptions' => subscriptions'[k] = lastOp'.mode
              ELSE /\ (k \in DOMAIN subscriptions') = (k \in DOMAIN subscriptions)
                   /\ k \in DOMAIN subscriptions' => subscriptions'[k] = subscriptions[k]]_vars

\* Unsubscribe(X) on a connected client has returned the write error, and X,
\* which was registered, is gone from the registry
C31_Witness ==
  /\ object = "client"
  /\ lastOp.op = "Unsubscribe" /\ lastOp.err = "write" /\ lastOp.keys = <<"X">>
  /\ lastOp.mode \in Modes
  /\ "X" \notin DOMAIN subscriptions
  /\ connected /\ conn \in open

\* C36: a connect whose dial succeeded and whose replay write failed returns
\* the error and keeps the connection: the client's handle, connected flag,
\* socket and receive loops are untouched by the failing replay, and the
\* manager holds the new handle with its receive loop started
C36_ReplayErrorKeepsConnection ==
  [][/\ (lastOp.op = "none" /\ lastOp'.op = "Connect" /\ lastOp'.err = "write") =>
          /\ conn # Nil
          /\ UNCHANGED <<conn, connected, open, readers, done>>
     /\ (lastOp.op = "none" /\ lastOp'.op = "connect" /\ lastOp'.err = "write") =>
          /\ ws' = lastOp'.conn /\ ws' # Nil /\ ws' \in open'
          /\ hm'.select = hm.select + 1
          /\ ~isConnecting']_vars

\* Connect() has returned a write error on a client that is connected, whose
\* socket is live and whose receive loop is blocked reading it
C36_Witness ==
  /\ object = "client"
  /\ lastOp.op = "Connect" /\ lastOp.err = "write" /\ lastOp.dialed
  /\ connected /\ conn \in open /\ conn = lastOp.call
  /\ readers.read[conn] = 1

\* C38: ChangeMode on a connected client writes one "change_mode" frame with
\* the new mode and the caller's whole key list, whether or not the keys are
\* registered (unless the write fails, which it returns); keys that were
\* absent stay absent, so the frame may name keys the registry, and a later
\* replay, do not hold
C38_ChangeModeAlwaysWrites ==
  [][(lastOp.op = "none" /\ connected /\ conn # Nil
        /\ lastOp'.op = "ChangeMode" /\ lastOp'.keys # <<>>) =>
       /\ IF lastOp'.err = ""
            THEN lastOp'.frames = <<[method |-> "change_mode", mode |-> lastOp'.mode,
                                     keys |-> lastOp'.keys]>>
            ELSE lastOp'.err = "write" /\ lastOp'.frames = <<>>
       /\ DOMAIN subscriptions' = DOMAIN subscriptions]_vars

\* ChangeMode(full, Y) on a connected client whose registry holds X alone:
\* the frame names Y, the registry does not
C38_Witness ==
  /\ object = "client"
  /\ lastOp.op = "ChangeMode" /\ lastOp.keys = <<"Y">> /\ lastOp.mode = "full"
  /\ Len(lastOp.frames) = 1 /\ lastOp.frames[1].keys = <<"Y">>
  /\ DOMAIN subscriptions = {"X"}
  /\ connected /\ conn \in open

\* C33: the manager's reconnectAttempts never exceeds 1, every reconnect is
\* scheduled with twice the base delay, and handleDisconnect never takes the
\* branch that gives up and calls Stop()
C33_BackoffNeverGrows ==
  /\ reconnectAttempts \in {0, 1}
  /\ reconnectDelay \in {BaseDelay, 2 * BaseDelay}
  /\ \A i \in 1..Len(delays) : delays[i] = 2 * BaseDelay
  /\ hm.stop = 0
  /\ ~(lastOp.op = "Stop" /\ lastOp.who = "hm")

\* two reconnects have been scheduled, one after each lost connection, both
\* with the delay 2, and the counter stands at 1
C33_Witness ==
  /\ object = "manager"
  /\ delays = <<2 * BaseDelay, 2 * BaseDelay>>
  /\ reconnectAttempts = 1
  /\ nextConn = 2

\* C39 as stated: for every feed entry of a live_feed or initial_feed frame
\* the manager invokes the price callback exactly once if ltp > 0 and not at
\* all otherwise, with the quantity absent exactly when the wire quantity is
\* 0 and equal to the wire quantity otherwise
C39_QuantityIsWireValue ==
  (object = "manager" /\ lastOp.op = "frame" /\ lastOp.who = "binary" /\ onPriceUpdate
     /\ lastOp.tag \in {"live_feed", "initial_feed"}) =>
    \A k \in lastOp.instruments :
      LET f == lastOp.feeds[k]
          is == {i \in 1..Len(lastOp.calls) : lastOp.calls[i].symbol = k}
      IN /\ Cardinality(is) = IF Ltp(f) > 0 THEN 1 ELSE 0
         /\ \A i \in is :
              /\ lastOp.calls[i].price = Ltp(f)
              /\ (lastOp.calls[i].ltq = {}) <=> (Int64(f) = <<0, 0>>)
              /\ \A q \in lastOp.calls[i].ltq : <<0, q>> = Int64(f)

\* C39, amended: as above, but the quantity handed to the callback is the
\* wire quantity narrowed to 32 bits (its low word): it is absent exactly
\* when the wire quantity is 0, and present with another value than the
\* wire's (0 for 2^32) when the wire quantity does not fit 32 bits
C39_QuantityIsNarrowed ==
  (object = "manager" /\ lastOp.op = "frame" /\ lastOp.who = "binary" /\ onPriceUpdate
     /\ lastOp.tag \in {"live_feed", "initial_feed"}) =>
    \A k \in lastOp.instruments :
      LET f == lastOp.feeds[k]
          is == {i \in 1..Len(lastOp.calls) : lastOp.calls[i].symbol = k}
      IN /\ Cardinality(is) = IF Ltp(f) > 0 THEN 1 ELSE 0
         /\ \A i \in is :
              /\ lastOp.calls[i].price = Ltp(f)
              /\ (lastOp.calls[i].ltq = {}) <=> (Int64(f) = <<0, 0>>)
              /\ \A q \in lastOp.calls[i].ltq : q = Int64(f)[2]

\* the manager dispatched a live feed whose quantity on the wire is 2^32: the
\* callback ran once, with a quantity that is present and 0
C39_Witness ==
  /\ object = "manager" /\ lastOp.op = "frame" /\ lastOp.tag = "live_feed"
  /\ lastOp.instruments = {"X"} /\ Int64(lastOp.feeds["X"]) = <<1, 0>>
  /\ Len(lastOp.calls) = 1 /\ lastOp.calls[1].ltq = {0}

\* the names of the wire's status codes 0..5
StatusNames ==
  <<"PRE_OPEN_START", "PRE_OPEN_END", "NORMAL_OPEN", "NORMAL_CLOSE", "CLOSING_START",
    "CLOSING_END">>

\* C32: the message handed to the market-info callback has a MarketInfo iff
\* the wire has one, with exactly the wire's segments; a segment whose code is
\* one of the six known ones has the status of the same name, any other code
\* gives NORMAL_OPEN
C32_MarketInfoTranslation ==
  (object = "client" /\ lastOp.op = "frame" /\ lastOp.tag = "market_info"
     /\ lastOp.calls # <<>>) =>
    LET msg == lastOp.calls[1].msg IN
    /\ Len(lastOp.calls) = 1 /\ msg.Type = "market_info"
    /\ (msg.MarketInfo = {}) <=> (lastOp.info = {})
    /\ \A i \in lastOp.info : \A o \in msg.MarketInfo :
         /\ DOMAIN o.SegmentStatus = DOMAIN i.SegmentStatus
         /\ \A g \in DOMAIN i.SegmentStatus :
              o.SegmentStatus[g] = IF i.SegmentStatus[g] \in 0..5
                                     THEN StatusNames[i.SegmentStatus[g] + 1]
                                     ELSE "NORMAL_OPEN"

\* the market-info callback received two segments: one with the known code of
\* CLOSING_END, translated to that name, one with an unknown code, translated
\* to NORMAL_OPEN
C32_Witness ==
  /\ object = "client" /\ lastOp.op = "frame" /\ lastOp.tag = "market_info"
  /\ Len(lastOp.calls) = 1
  /\ lastOp.info = {[SegmentStatus |-> [g \in Segments |-> IF g = "NSE_EQ" THEN 5 ELSE 6]]}
  /\ lastOp.calls[1].msg.MarketInfo =
       {[SegmentStatus |-> [g \in Segments |->
                              IF g = "NSE_EQ" THEN "CLOSING_END" ELSE "NORMAL_OPEN"]]}

=============================================================================
